---- MODULE Spec2Model ----
(***************************************************************************)
(* Behavioural risk-analytics engine of ThreatWatch and the session layer  *)
(* that drives it:                                                         *)
(*   backend/app/test.py             the engine (SecurityMonitoringSystem) *)
(*   backend/app/video_processing.py the per-camera frame loop             *)
(*   backend/app/main.py             the start/stop/pause/play endpoints   *)
(*                                                                         *)
(* Conventions of the model.                                               *)
(*   Time is in whole seconds; now is the last reading of time.time().     *)
(*   Scores are fixed-point integers, one unit = 1/10000 of a risk point   *)
(*   (Pts(20) is the score 20.0).  Confidences are in tenths (9 is 0.9),   *)
(*   time factors in thousandths (1500 is 1.5).                            *)
(*   Points are pairs <<x, y>>, bounding boxes are <<x1, y1, x2, y2>>.     *)
(*   A Python dict that is iterated (person_trackers) is a sequence of its *)
(*   values in insertion order.                                            *)
(*   The detector, the tracker, the video capture and the clock are the    *)
(*   environment: their results are the inputs of the actions.             *)
(***************************************************************************)
EXTENDS Integers, Sequences, FiniteSets, TLC

\* Python's None, for the Optional[float] fields (stationary_start, last_tracker_reset).
None == -1

Min(a, b) == IF a <= b THEN a ELSE b

Max(a, b) == IF a >= b THEN a ELSE b

Abs(a) == IF a < 0 THEN -a ELSE a

\* Risk points as fixed-point score units.
Pts(n) == n * 10000

\* floor(sqrt(n)); exact on the axis-aligned steps the model's positions make.
ISqrt(n) == CHOOSE r \in 0..n : r * r <= n /\ n < (r + 1) * (r + 1)

Range(s) == {s[i] : i \in 1..Len(s)}

(***************************************************************************)
(* RiskEvent and PersonTracker                                             *)
(***************************************************************************)

\* location and description carry no behaviour and are left out.
RiskEvent(event_type, risk_score, confidence, timestamp, duration) ==
    [event_type |-> event_type, risk_score |-> risk_score, confidence |-> confidence,
     timestamp |-> timestamp, duration |-> duration]

PositionsMaxLen == 30

DetectedObjectsMaxLen == 10

\* total_risk_score, max_risk_score and zone_entry_time are never written and are left out.
PersonTracker(track_id) ==
    [track_id |-> track_id, positions |-> <<>>, timestamps |-> <<>>,
     detected_objects |-> <<>>, risk_events |-> <<>>, status |-> "normal",
     last_seen |-> 0, stationary_start |-> None, last_bbox |-> <<>>,
     last_notified_threat |-> "normal"]

\* A bounded list that refuses the new entry when it is full
deque_append_refusing_when_full(d, x, maxlen) ==
    IF Len(d) >= maxlen THEN d ELSE Append(d, x)

\* deque(maxlen=n).append
deque_append(d, x, maxlen) ==
    IF Len(d) >= maxlen THEN Tail(d) \o <<x>> ELSE Append(d, x)

add_position(person, pos, timestamp, bbox) ==
    [person EXCEPT !.positions = deque_append(@, pos, PositionsMaxLen),
                   !.timestamps = deque_append(@, timestamp, PositionsMaxLen),
                   !.last_seen = timestamp,
                   !.last_bbox = bbox]

\* sqrt(dx*dx + dy*dy); a step along an axis has the length of its one component.
Dist(p, q) ==
    IF q[2] = p[2] THEN Abs(q[1] - p[1])
    ELSE IF q[1] = p[1] THEN Abs(q[2] - p[2])
    ELSE ISqrt((q[1] - p[1]) * (q[1] - p[1]) + (q[2] - p[2]) * (q[2] - p[2]))

\* The speed as the fraction num/den (den >= 1); 0/1 where the code returns 0.0.
get_speed(person) ==
    LET n == Len(person.positions)
        Steps == {i \in 2..n : person.timestamps[i] - person.timestamps[i - 1] > 0}
        RECURSIVE SumDist(_), SumTime(_)
        SumDist(S) == IF S = {} THEN 0
                      ELSE LET i == CHOOSE j \in S : TRUE
                           IN Dist(person.positions[i - 1], person.positions[i]) + SumDist(S \ {i})
        SumTime(S) == IF S = {} THEN 0
                      ELSE LET i == CHOOSE j \in S : TRUE
                           IN (person.timestamps[i] - person.timestamps[i - 1]) + SumTime(S \ {i})
    IN IF n < 2 THEN [num |-> 0, den |-> 1]
       ELSE IF SumTime(Steps) > 0 THEN [num |-> SumDist(Steps), den |-> SumTime(Steps)]
       ELSE [num |-> 0, den |-> 1]

\* math.atan2(0, 0) is 0: a zero step has the direction of the positive x axis.
Direction(p, q) ==
    IF q[1] = p[1] /\ q[2] = p[2] THEN <<1, 0>> ELSE <<q[1] - p[1], q[2] - p[2]>>

\* |atan2(v) - atan2(u)| wrapped to [0, pi] is the angle between u and v; it exceeds
\* pi/4 iff cos < sqrt(2)/2, i.e. u.v <= 0 or 2 (u.v)^2 < |u|^2 |v|^2.
AngleDiffExceedsQuarterPi(u, v) ==
    LET dot == u[1] * v[1] + u[2] * v[2]
    IN \/ dot <= 0
       \/ 2 * dot * dot < (u[1] * u[1] + u[2] * u[2]) * (v[1] * v[1] + v[2] * v[2])

get_movement_pattern(person) ==
    LET n == Len(person.positions)
        speed == get_speed(person)
        direction_changes ==
            Cardinality({i \in 3..n :
                AngleDiffExceedsQuarterPi(
                    Direction(person.positions[i - 2], person.positions[i - 1]),
                    Direction(person.positions[i - 1], person.positions[i]))})
    IN IF n < 5 THEN "insufficient_data"
       ELSE IF speed.num < 5 * speed.den THEN "stationary"
       ELSE IF speed.num > 50 * speed.den THEN "running"
       ELSE IF 10 * direction_changes > 3 * n THEN "erratic"
       ELSE IF 10 * direction_changes < n THEN "linear"
       ELSE "normal"

(***************************************************************************)
(* RiskScoreCalculator                                                     *)
(***************************************************************************)

EventTypes == {"intrusion", "armed_person", "suspicious_loitering", "erratic_movement", "running"}

\* base_risk_scores.get(event_type, 0.0), in risk points
base_risk_scores(event_type) ==
    CASE event_type = "intrusion" -> 15
      [] event_type = "armed_person" -> 20
      [] event_type = "suspicious_loitering" -> 8
      [] event_type = "erratic_movement" -> 6
      [] event_type = "running" -> 5
      [] event_type = "group_formation" -> 7
      [] OTHER -> 0

\* confidence in tenths
get_confidence_level(confidence) ==
    IF confidence >= 8 THEN "high"
    ELSE IF confidence >= 6 THEN "medium"
    ELSE "low"

\* confidence_weights with the weights of high and low exchanged
confidence_weights_exchanged(level) ==
    CASE level = "high" -> 5
      [] level = "medium" -> 8
      [] level = "low" -> 10

\* confidence_weights, in tenths
confidence_weights(level) ==
    CASE level = "high" -> 10
      [] level = "medium" -> 8
      [] level = "low" -> 5

\* floor(1000 * exp(-d / 300)) for d = 120 .. 361
ExpDecayTable ==
    <<
       670, 668, 665, 663, 661, 659, 657, 654, 652, 650, 648, 646, 644, 641, 639, 637, 635, 633, 631, 629,
       627, 625, 622, 620, 618, 616, 614, 612, 610, 608, 606, 604, 602, 600, 598, 596, 594, 592, 590, 588,
       586, 584, 582, 580, 578, 576, 575, 573, 571, 569, 567, 565, 563, 561, 559, 558, 556, 554, 552, 550,
       548, 546, 545, 543, 541, 539, 537, 536, 534, 532, 530, 529, 527, 525, 523, 522, 520, 518, 516, 515,
       513, 511, 510, 508, 506, 504, 503, 501, 499, 498, 496, 494, 493, 491, 490, 488, 486, 485, 483, 481,
       480, 478, 477, 475, 473, 472, 470, 469, 467, 466, 464, 463, 461, 459, 458, 456, 455, 453, 452, 450,
       449, 447, 446, 444, 443, 441, 440, 438, 437, 436, 434, 433, 431, 430, 428, 427, 425, 424, 423, 421,
       420, 418, 417, 416, 414, 413, 412, 410, 409, 407, 406, 405, 403, 402, 401, 399, 398, 397, 395, 394,
       393, 391, 390, 389, 388, 386, 385, 384, 382, 381, 380, 379, 377, 376, 375, 374, 372, 371, 370, 369,
       367, 366, 365, 364, 363, 361, 360, 359, 358, 357, 355, 354, 353, 352, 351, 349, 348, 347, 346, 345,
       344, 343, 341, 340, 339, 338, 337, 336, 335, 333, 332, 331, 330, 329, 328, 327, 326, 325, 324, 323,
       321, 320, 319, 318, 317, 316, 315, 314, 313, 312, 311, 310, 309, 308, 307, 306, 305, 304, 303, 302,
       301, 300
    >>

\* max(0.3, math.exp(-time_diff / 300)), in thousandths, for time_diff >= 120
ExpDecay(time_diff) ==
    IF time_diff - 119 <= Len(ExpDecayTable)
    THEN Max(300, ExpDecayTable[time_diff - 119])
    ELSE 300

\* in thousandths
calculate_time_factor(event_time, current_time) ==
    LET time_diff == current_time - event_time
    IN IF time_diff < 10 THEN 1500
       ELSE IF time_diff < 30 THEN 1200
       ELSE IF time_diff < 120 THEN 1000
       ELSE ExpDecay(time_diff)

\* base * confidence_factor * time_factor * location_factor, then the duration bonus
\* (1 + min(duration / 60, 2.0) * 0.3) = (200 + min(duration, 120)) / 200, in score units.
event_score(event, current_time) ==
    LET base_score == base_risk_scores(event.event_type)
        confidence_factor == confidence_weights(get_confidence_level(event.confidence))
        time_factor == calculate_time_factor(event.timestamp, current_time)
        bonus == IF event.duration > 30 THEN 200 + Min(event.duration, 120) ELSE 200
    IN (base_score * confidence_factor * time_factor * bonus) \div 200

RECURSIVE SumScores(_, _)
SumScores(events, current_time) ==
    IF events = <<>> THEN 0
    ELSE event_score(Head(events), current_time) + SumScores(Tail(events), current_time)

\* The running maximum compared with >=: the last of the highest events wins.
RECURSIVE PrimaryThreat_taking_the_last_on_ties(_, _, _, _)
PrimaryThreat_taking_the_last_on_ties(events, current_time, max_event_score, primary_threat) ==
    IF events = <<>> THEN primary_threat
    ELSE LET s == event_score(Head(events), current_time)
         IN IF s >= max_event_score
            THEN PrimaryThreat_taking_the_last_on_ties(Tail(events), current_time, s,
                                                       Head(events).event_type)
            ELSE PrimaryThreat_taking_the_last_on_ties(Tail(events), current_time,
                                                       max_event_score, primary_threat)

\* The loop's running maximum: the first event whose score exceeds every earlier
\* one and is not exceeded later; "normal" when no event scores above 0.
RECURSIVE PrimaryThreat(_, _, _, _)
PrimaryThreat(events, current_time, max_event_score, primary_threat) ==
    IF events = <<>> THEN primary_threat
    ELSE LET s == event_score(Head(events), current_time)
         IN IF s > max_event_score
            THEN PrimaryThreat(Tail(events), current_time, s, Head(events).event_type)
            ELSE PrimaryThreat(Tail(events), current_time, max_event_score, primary_threat)

\* calculate_risk_score that also rates the movement itself: a running person
\* gets the base score of running, events or not.
calculate_risk_score_rating_the_pattern(person, current_time) ==
    LET movement_pattern == get_movement_pattern(person)
        summed == SumScores(person.risk_events, current_time)
                  + (IF movement_pattern = "running" THEN Pts(base_risk_scores("running")) ELSE 0)
        patterned == IF movement_pattern = "erratic" THEN (summed * 13) \div 10
                     ELSE IF movement_pattern = "running" THEN (summed * 12) \div 10
                     ELSE IF movement_pattern = "stationary" /\ Len(person.risk_events) > 0
                          THEN (summed * 11) \div 10
                     ELSE summed
        recent(e) == current_time - e.timestamp < 60
        escalated == IF Len(SelectSeq(person.risk_events, recent)) > 2
                     THEN (patterned * 14) \div 10
                     ELSE patterned
    IN [score |-> Min(escalated, Pts(100)),
        primary_threat |-> PrimaryThreat(person.risk_events, current_time, 0, "normal")]

\* calculate_risk_score without the cap of its return statement
calculate_risk_score_uncapped(person, current_time) ==
    LET summed == SumScores(person.risk_events, current_time)
        movement_pattern == get_movement_pattern(person)
        patterned == IF movement_pattern = "erratic" THEN (summed * 13) \div 10
                     ELSE IF movement_pattern = "running" THEN (summed * 12) \div 10
                     ELSE IF movement_pattern = "stationary" /\ Len(person.risk_events) > 0
                          THEN (summed * 11) \div 10
                     ELSE summed
        recent(e) == current_time - e.timestamp < 60
        escalated == IF Len(SelectSeq(person.risk_events, recent)) > 2
                     THEN (patterned * 14) \div 10
                     ELSE patterned
    IN [score |-> escalated,
        primary_threat |-> PrimaryThreat(person.risk_events, current_time, 0, "normal")]

\* calculate_risk_score that escalates from two recent events on
calculate_risk_score_escalating_at_two(person, current_time) ==
    LET summed == SumScores(person.risk_events, current_time)
        movement_pattern == get_movement_pattern(person)
        patterned == IF movement_pattern = "erratic" THEN (summed * 13) \div 10
                     ELSE IF movement_pattern = "running" THEN (summed * 12) \div 10
                     ELSE IF movement_pattern = "stationary" /\ Len(person.risk_events) > 0
                          THEN (summed * 11) \div 10
                     ELSE summed
        recent(e) == current_time - e.timestamp < 60
        escalated == IF Len(SelectSeq(person.risk_events, recent)) > 1
                     THEN (patterned * 14) \div 10
                     ELSE patterned
    IN [score |-> Min(escalated, Pts(100)),
        primary_threat |-> PrimaryThreat(person.risk_events, current_time, 0, "normal")]

\* calculate_risk_score that names a primary threat only when one event alone
\* scores at least the default alert threshold
calculate_risk_score_naming_strong_events(person, current_time) ==
    LET summed == SumScores(person.risk_events, current_time)
        movement_pattern == get_movement_pattern(person)
        patterned == IF movement_pattern = "erratic" THEN (summed * 13) \div 10
                     ELSE IF movement_pattern = "running" THEN (summed * 12) \div 10
                     ELSE IF movement_pattern = "stationary" /\ Len(person.risk_events) > 0
                          THEN (summed * 11) \div 10
                     ELSE summed
        recent(e) == current_time - e.timestamp < 60
        escalated == IF Len(SelectSeq(person.risk_events, recent)) > 2
                     THEN (patterned * 14) \div 10
                     ELSE patterned
    IN [score |-> Min(escalated, Pts(100)),
        primary_threat |-> PrimaryThreat(person.risk_events, current_time, Pts(20) - 1,
                                         "normal")]

calculate_risk_score(person, current_time) ==
    LET summed == SumScores(person.risk_events, current_time)
        movement_pattern == get_movement_pattern(person)
        patterned == IF movement_pattern = "erratic" THEN (summed * 13) \div 10
                     ELSE IF movement_pattern = "running" THEN (summed * 12) \div 10
                     ELSE IF movement_pattern = "stationary" /\ Len(person.risk_events) > 0
                          THEN (summed * 11) \div 10
                     ELSE summed
        recent(e) == current_time - e.timestamp < 60
        escalated == IF Len(SelectSeq(person.risk_events, recent)) > 2
                     THEN (patterned * 14) \div 10
                     ELSE patterned
    IN [score |-> Min(escalated, Pts(100)),
        primary_threat |-> PrimaryThreat(person.risk_events, current_time, 0, "normal")]

(***************************************************************************)
(* SecurityZone                                                            *)
(*                                                                         *)
(* A zone definition is the parsed JSON value handed to                    *)
(* SecurityZone, keyword-unpacked:                                         *)
(*   [kind |-> "not_mapping"]            unpacking a non-dict: TypeError   *)
(*   [kind |-> "mapping", has_name, name, has_points, points, access_level]*)
(*     access_level "" stands for an absent key (the default "public")     *)
(* points is [kind |-> "not_list"] (null, a number: iterating it raises    *)
(* TypeError) or [kind |-> "list", items |-> <<point, ...>>], a point being*)
(*   [kind |-> "ok", x, y]       {"x": int, "y": int}                      *)
(*   [kind |-> "missing_key"]    no "x" or no "y": KeyError                *)
(*   [kind |-> "not_mapping"]    p['x'] of a list or number: TypeError     *)
(*   [kind |-> "not_numeric"]    "x": "abc": np.array(..., int32) raises   *)
(*                               ValueError                                *)
(***************************************************************************)

AccessLevels == {"public", "monitored", "restricted", "critical"}

\* The result of the constructor: the zone, or the exception that leaves it.
\* KeyError and TypeError of the points are caught (empty points); a ValueError of
\* np.array is not. A missing name or points is the call's own TypeError.
SecurityZone(data) ==
    IF data.kind # "mapping" \/ ~data.has_name \/ ~data.has_points
    THEN [raised |-> "TypeError"]
    ELSE LET access_level == IF data.access_level = "" THEN "public" ELSE data.access_level
             pts == data.points
             caught == \/ pts.kind # "list"
                       \/ \E i \in 1..Len(pts.items) :
                              pts.items[i].kind \in {"missing_key", "not_mapping"}
             uncaught == /\ ~caught
                         /\ \E i \in 1..Len(pts.items) : pts.items[i].kind = "not_numeric"
         IN IF uncaught THEN [raised |-> "ValueError"]
            ELSE [raised |-> "none",
                  zone |-> [name |-> data.name, access_level |-> access_level,
                            points |-> IF caught THEN <<>>
                                       ELSE [i \in 1..Len(pts.items) |->
                                                <<pts.items[i].x, pts.items[i].y>>]]]

\* cv2.pointPolygonTest(contour, pt, False) on an integer contour: 1 inside, 0 on an
\* edge or a vertex, -1 outside (OpenCV's integer branch: crossing number of the ray
\* to the right of pt).
pointPolygonTest(contour, pt) ==
    LET total == Len(contour)
        V0(i) == IF i = 1 THEN contour[total] ELSE contour[i - 1]
        V(i) == contour[i]
        Skips(i) == \/ (V0(i)[2] <= pt[2] /\ V(i)[2] <= pt[2])
                    \/ (V0(i)[2] > pt[2] /\ V(i)[2] > pt[2])
                    \/ (V0(i)[1] < pt[1] /\ V(i)[1] < pt[1])
        OnFlatEdge(i) ==
            /\ pt[2] = V(i)[2]
            /\ \/ pt[1] = V(i)[1]
               \/ /\ pt[2] = V0(i)[2]
                  /\ \/ (V0(i)[1] <= pt[1] /\ pt[1] <= V(i)[1])
                     \/ (V(i)[1] <= pt[1] /\ pt[1] <= V0(i)[1])
        Cross(i) == (pt[2] - V0(i)[2]) * (V(i)[1] - V0(i)[1])
                    - (pt[1] - V0(i)[1]) * (V(i)[2] - V0(i)[2])
        OnEdge(i) == IF Skips(i) THEN OnFlatEdge(i) ELSE Cross(i) = 0
        Crosses(i) == /\ ~Skips(i)
                      /\ (IF V(i)[2] < V0(i)[2] THEN -Cross(i) ELSE Cross(i)) > 0
    IN IF total = 0 THEN -1
       ELSE IF \E i \in 1..total : OnEdge(i) THEN 0
       ELSE IF Cardinality({i \in 1..total : Crosses(i)}) % 2 = 0 THEN -1
       ELSE 1

contains_point(zone, point) ==
    IF Len(zone.points) = 0 THEN FALSE
    ELSE pointPolygonTest(zone.points, point) >= 0

(***************************************************************************)
(* SecurityMonitoringSystem: construction                                  *)
(*                                                                         *)
(* zones_json, the camera's zones column, is                               *)
(*   [kind |-> "none"]        None or ""                                   *)
(*   [kind |-> "invalid"]     json.loads raises JSONDecodeError            *)
(*   [kind |-> "not_object"]  valid JSON that is no object                 *)
(*   [kind |-> "object", zones_is_dict, entries]                           *)
(*     entries: the values of data.get("zones", data), in order            *)
(***************************************************************************)

\* LoadZones whose except clause misses json.JSONDecodeError: text that is no JSON
\* raises out of __init__.
LoadZones_raising_on_invalid_json(zones_json) ==
    IF zones_json.kind = "invalid"
    THEN [raised |-> TRUE, security_zones |-> <<>>]
    ELSE IF zones_json.kind # "object" \/ ~zones_json.zones_is_dict
    THEN [raised |-> FALSE, security_zones |-> <<>>]
    ELSE LET built == [i \in 1..Len(zones_json.entries) |-> SecurityZone(zones_json.entries[i])]
             Bad(i) == built[i].raised # "none"
         IN IF \E i \in 1..Len(built) : Bad(i)
            THEN LET first == CHOOSE i \in 1..Len(built) :
                                  Bad(i) /\ \A j \in 1..(i - 1) : ~Bad(j)
                 IN [raised |-> built[first].raised = "ValueError", security_zones |-> <<>>]
            ELSE [raised |-> FALSE,
                  security_zones |-> [i \in 1..Len(built) |-> built[i].zone]]

\* The zone part of __init__: the list comprehension builds every zone or none. A
\* TypeError of any SecurityZone call is caught by the outer except and leaves
\* security_zones = []; a ValueError is not caught and leaves __init__.
LoadZones(zones_json) ==
    IF zones_json.kind # "object" \/ ~zones_json.zones_is_dict
    THEN [raised |-> FALSE, security_zones |-> <<>>]
    ELSE LET built == [i \in 1..Len(zones_json.entries) |-> SecurityZone(zones_json.entries[i])]
             Bad(i) == built[i].raised # "none"
         IN IF \E i \in 1..Len(built) : Bad(i)
            THEN LET first == CHOOSE i \in 1..Len(built) :
                                  Bad(i) /\ \A j \in 1..(i - 1) : ~Bad(j)
                 IN [raised |-> built[first].raised = "ValueError", security_zones |-> <<>>]
            ELSE [raised |-> FALSE,
                  security_zones |-> [i \in 1..Len(built) |-> built[i].zone]]

DefaultLoiteringThreshold == 10

DefaultRiskAlertThreshold == 20

CriticalAlertThreshold == 40

\* The fields of the system after __init__ succeeded; the loop then overwrites the
\* two camera thresholds. last_tracker_reset = None stands for the missing attribute.
\* tracker_reset_at is what the store sees of self.tracker: the time of the last
\* call of its reset(), None while it was never called.
SecurityMonitoringSystem(zones_json) ==
    [person_trackers |-> <<>>,
     loitering_threshold |-> DefaultLoiteringThreshold,
     risk_alert_threshold |-> Pts(DefaultRiskAlertThreshold),
     critical_alert_threshold |-> Pts(CriticalAlertThreshold),
     security_zones |-> LoadZones(zones_json).security_zones,
     last_tracker_reset |-> None,
     tracker_reset_at |-> None]

(***************************************************************************)
(* SecurityMonitoringSystem: tracking                                      *)
(*                                                                         *)
(* A detection is [class, confidence, bbox]; the tracker's result is       *)
(* [raised, tracks], tracks being a sequence of [bbox, track_id].          *)
(***************************************************************************)

HasTrack(person_trackers, track_id) ==
    \E i \in 1..Len(person_trackers) : person_trackers[i].track_id = track_id

IndexOfTrack(person_trackers, track_id) ==
    CHOOSE i \in 1..Len(person_trackers) : person_trackers[i].track_id = track_id

TrackIdsOf(person_trackers) == {person_trackers[i].track_id : i \in 1..Len(person_trackers)}

\* int(a / 2): truncation toward zero
HalfInt(a) == IF a >= 0 THEN a \div 2 ELSE -((-a) \div 2)

\* One pass of the loop over the tracker's tracks: create the PersonTracker if the
\* id is new, then add_position.
RECURSIVE AddTracks(_, _, _)
AddTracks(person_trackers, tracks, current_time) ==
    IF tracks = <<>> THEN person_trackers
    ELSE LET track == Head(tracks)
             bbox == track.bbox
             center == <<HalfInt(bbox[1] + bbox[3]), HalfInt(bbox[2] + bbox[4])>>
             known == IF HasTrack(person_trackers, track.track_id) THEN person_trackers
                      ELSE Append(person_trackers, PersonTracker(track.track_id))
             i == IndexOfTrack(known, track.track_id)
         IN AddTracks([known EXCEPT ![i] = add_position(@, center, current_time, bbox)],
                      Tail(tracks), current_time)

\* update_trackers whose except clause starts over with an empty store.
update_trackers_resetting_on_failure(system, detections, tracker_result, current_time) ==
    LET is_person(d) == d.class = "person"
    IN IF SelectSeq(detections, is_person) = <<>> THEN system
       ELSE IF tracker_result.raised THEN [system EXCEPT !.person_trackers = <<>>]
       ELSE [system EXCEPT !.person_trackers = AddTracks(@, tracker_result.tracks, current_time)]

\* No person detection: return before the tracker is called. tracker.update raising
\* is caught and logged: nothing is updated.
update_trackers(system, detections, tracker_result, current_time) ==
    LET is_person(d) == d.class = "person"
    IN IF SelectSeq(detections, is_person) = <<>> THEN system
       ELSE IF tracker_result.raised THEN system
       ELSE [system EXCEPT !.person_trackers = AddTracks(@, tracker_result.tracks, current_time)]

WeaponClasses == {"knife", "gun", "weapon", "scissors", "bottle"}

CarryMargin == 20

\* The class's second definition (the one in force). time.time() is read as the
\* frame's clock reading.
RECURSIVE detect_carried_objects(_, _, _, _)
detect_carried_objects(tracker, detections, person_bbox, wall_time) ==
    IF detections = <<>> THEN tracker
    ELSE LET detection == Head(detections)
             px1 == person_bbox[1] - CarryMargin
             py1 == person_bbox[2] - CarryMargin
             px2 == person_bbox[3] + CarryMargin
             py2 == person_bbox[4] + CarryMargin
             d == detection.bbox
             overlaps == ~(d[3] < px1 \/ d[1] > px2 \/ d[4] < py1 \/ d[2] > py2)
             seen == IF detection.class \in WeaponClasses /\ overlaps
                     THEN [tracker EXCEPT !.detected_objects =
                              deque_append(@, [object |-> detection.class,
                                               confidence |-> detection.confidence,
                                               timestamp |-> wall_time],
                                           DetectedObjectsMaxLen)]
                     ELSE tracker
         IN detect_carried_objects(seen, Tail(detections), person_bbox, wall_time)

(***************************************************************************)
(* SecurityMonitoringSystem: behaviour analysis                            *)
(* Each check returns the list of the events it creates: <<>> or one event.*)
(***************************************************************************)

\* check_intrusion that also guards the monitored zones
check_intrusion_guarding_monitored_zones(system, person, current_time) ==
    IF person.positions = <<>> THEN <<>>
    ELSE LET current_pos == person.positions[Len(person.positions)]
             zones == system.security_zones
             Hit(i) == /\ contains_point(zones[i], current_pos)
                       /\ zones[i].access_level \in {"monitored", "restricted", "critical"}
             recent(e) == e.event_type = "intrusion" /\ current_time - e.timestamp < 60
         IN IF (\E i \in 1..Len(zones) : Hit(i)) /\ SelectSeq(person.risk_events, recent) = <<>>
            THEN <<RiskEvent("intrusion", 12, 9, current_time, 0)>>
            ELSE <<>>

check_intrusion(system, person, current_time) ==
    IF person.positions = <<>> THEN <<>>
    ELSE LET current_pos == person.positions[Len(person.positions)]
             zones == system.security_zones
             Hit(i) == /\ contains_point(zones[i], current_pos)
                       /\ zones[i].access_level \in {"restricted", "critical"}
             recent(e) == e.event_type = "intrusion" /\ current_time - e.timestamp < 60
         IN IF (\E i \in 1..Len(zones) : Hit(i)) /\ SelectSeq(person.risk_events, recent) = <<>>
            THEN LET first == CHOOSE i \in 1..Len(zones) : Hit(i) /\ \A j \in 1..(i - 1) : ~Hit(j)
                 IN <<RiskEvent("intrusion",
                                IF zones[first].access_level = "critical" THEN 15 ELSE 12,
                                9, current_time, 0)>>
            ELSE <<>>

MaxConfidence(objects) ==
    CHOOSE c \in {objects[i].confidence : i \in 1..Len(objects)} :
        \A i \in 1..Len(objects) : objects[i].confidence <= c

\* check_weapons with the confidence of the first recent sighting, the one whose
\* class the description names
check_weapons_taking_the_first_confidence(person, current_time) ==
    LET recent_weapon(obj) == /\ current_time - obj.timestamp < 30
                              /\ obj.object \in WeaponClasses
        recent_weapons == SelectSeq(person.detected_objects, recent_weapon)
        recent_event(e) == e.event_type = "armed_person" /\ current_time - e.timestamp < 30
    IN IF recent_weapons # <<>> /\ SelectSeq(person.risk_events, recent_event) = <<>>
       THEN <<RiskEvent("armed_person", 0, recent_weapons[1].confidence, current_time, 0)>>
       ELSE <<>>

check_weapons(person, current_time) ==
    LET recent_weapon(obj) == /\ current_time - obj.timestamp < 30
                              /\ obj.object \in WeaponClasses
        recent_weapons == SelectSeq(person.detected_objects, recent_weapon)
        recent_event(e) == e.event_type = "armed_person" /\ current_time - e.timestamp < 30
    IN IF recent_weapons # <<>> /\ SelectSeq(person.risk_events, recent_event) = <<>>
       THEN <<RiskEvent("armed_person", 0, MaxConfidence(recent_weapons), current_time, 0)>>
       ELSE <<>>

RECURSIVE PathLength(_)
PathLength(positions) ==
    IF Len(positions) < 2 THEN 0
    ELSE Dist(positions[1], positions[2]) + PathLength(Tail(positions))

\* check_loitering that emits as soon as the window has lasted the threshold (>=)
check_loitering_at_threshold(system, person, current_time) ==
    IF Len(person.positions) < 10 THEN [events |-> <<>>, person |-> person]
    ELSE LET n == Len(person.positions)
             recent_positions == SubSeq(person.positions, n - 9, n)
             total_movement == PathLength(recent_positions)
             recent(e) == /\ e.event_type = "suspicious_loitering"
                          /\ current_time - e.timestamp < 60
         IN IF total_movement < 10 * Len(recent_positions)
            THEN IF person.stationary_start = None
                 THEN [events |-> <<>>,
                       person |-> [person EXCEPT !.stationary_start = current_time]]
                 ELSE IF /\ current_time - person.stationary_start >= system.loitering_threshold
                         /\ SelectSeq(person.risk_events, recent) = <<>>
                 THEN [events |-> <<RiskEvent("suspicious_loitering", 8, 8, current_time,
                                              current_time - person.stationary_start)>>,
                       person |-> person]
                 ELSE [events |-> <<>>, person |-> person]
            ELSE [events |-> <<>>, person |-> [person EXCEPT !.stationary_start = None]]

\* check_loitering without the else branch: movement does not end the window.
check_loitering_keeping_the_window(system, person, current_time) ==
    IF Len(person.positions) < 10 THEN [events |-> <<>>, person |-> person]
    ELSE LET n == Len(person.positions)
             recent_positions == SubSeq(person.positions, n - 9, n)
             total_movement == PathLength(recent_positions)
             recent(e) == /\ e.event_type = "suspicious_loitering"
                          /\ current_time - e.timestamp < 60
         IN IF total_movement < 10 * Len(recent_positions)
            THEN IF person.stationary_start = None
                 THEN [events |-> <<>>,
                       person |-> [person EXCEPT !.stationary_start = current_time]]
                 ELSE IF /\ current_time - person.stationary_start > system.loitering_threshold
                         /\ SelectSeq(person.risk_events, recent) = <<>>
                 THEN [events |-> <<RiskEvent("suspicious_loitering", 8, 8, current_time,
                                              current_time - person.stationary_start)>>,
                       person |-> person]
                 ELSE [events |-> <<>>, person |-> person]
            ELSE [events |-> <<>>, person |-> person]

\* Returns the events and the person, whose stationary_start the check may set or clear.
\* avg_movement = total_movement / 10 < 10 iff total_movement < 100.
check_loitering(system, person, current_time) ==
    IF Len(person.positions) < 10 THEN [events |-> <<>>, person |-> person]
    ELSE LET n == Len(person.positions)
             recent_positions == SubSeq(person.positions, n - 9, n)
             total_movement == PathLength(recent_positions)
             recent(e) == /\ e.event_type = "suspicious_loitering"
                          /\ current_time - e.timestamp < 60
         IN IF total_movement < 10 * Len(recent_positions)
            THEN IF person.stationary_start = None
                 THEN [events |-> <<>>,
                       person |-> [person EXCEPT !.stationary_start = current_time]]
                 ELSE IF /\ current_time - person.stationary_start > system.loitering_threshold
                         /\ SelectSeq(person.risk_events, recent) = <<>>
                 THEN [events |-> <<RiskEvent("suspicious_loitering", 8, 8, current_time,
                                              current_time - person.stationary_start)>>,
                       person |-> person]
                 ELSE [events |-> <<>>, person |-> person]
            ELSE [events |-> <<>>, person |-> [person EXCEPT !.stationary_start = None]]

\* check_movement_patterns whose running branch looks for recent erratic_movement
\* events (the filter of the branch above, copied)
check_movement_patterns_with_copied_filter(person, current_time) ==
    LET pattern == get_movement_pattern(person)
        recent_erratic(e) == e.event_type = "erratic_movement" /\ current_time - e.timestamp < 30
    IN IF pattern = "erratic" /\ SelectSeq(person.risk_events, recent_erratic) = <<>>
       THEN <<RiskEvent("erratic_movement", 6, 7, current_time, 0)>>
       ELSE IF pattern = "running" /\ SelectSeq(person.risk_events, recent_erratic) = <<>>
       THEN <<RiskEvent("running", 5, 8, current_time, 0)>>
       ELSE <<>>

check_movement_patterns(person, current_time) ==
    LET pattern == get_movement_pattern(person)
        recent_erratic(e) == e.event_type = "erratic_movement" /\ current_time - e.timestamp < 30
        recent_running(e) == e.event_type = "running" /\ current_time - e.timestamp < 20
    IN IF pattern = "erratic" /\ SelectSeq(person.risk_events, recent_erratic) = <<>>
       THEN <<RiskEvent("erratic_movement", 6, 7, current_time, 0)>>
       ELSE IF pattern = "running" /\ SelectSeq(person.risk_events, recent_running) = <<>>
       THEN <<RiskEvent("running", 5, 8, current_time, 0)>>
       ELSE <<>>

EventRetention == 600

\* Every check reads the events the person held before this pass; the new events
\* are appended together, then the events of 600 s and older are dropped.
\* analyze_behavior keeping the events that are exactly EventRetention old
analyze_behavior_keeping_at_retention(system, person, current_time) ==
    LET loitering == check_loitering(system, person, current_time)
        new_events == check_intrusion(system, person, current_time)
                      \o check_weapons(person, current_time)
                      \o loitering.events
                      \o check_movement_patterns(loitering.person, current_time)
        kept(e) == current_time - e.timestamp <= EventRetention
    IN [loitering.person EXCEPT !.risk_events = SelectSeq(person.risk_events \o new_events, kept)]

analyze_behavior(system, person, current_time) ==
    LET loitering == check_loitering(system, person, current_time)
        new_events == check_intrusion(system, person, current_time)
                      \o check_weapons(person, current_time)
                      \o loitering.events
                      \o check_movement_patterns(loitering.person, current_time)
        kept(e) == current_time - e.timestamp < EventRetention
    IN [loitering.person EXCEPT !.risk_events = SelectSeq(person.risk_events \o new_events, kept)]

(***************************************************************************)
(* SecurityMonitoringSystem: the per-frame pipeline                        *)
(***************************************************************************)

ActiveWindow == 5

\* detect_carried_objects is called when analyze_behavior left a last_bbox.
CarriedObjectsSeen(analyzed, detections, current_time) ==
    IF analyzed.last_bbox # <<>>
    THEN detect_carried_objects(analyzed, detections, analyzed.last_bbox, current_time)
    ELSE analyzed

\* Step 3 of process_frame, from the i-th person on, in dict order. analysis_fault
\* is the set of track ids whose analyze_behavior raises: nothing catches it, so the
\* loop over the persons ends there and the exception leaves process_frame.
\* Returns the system and whether an exception left the loop.
RECURSIVE AnalyzePersons(_, _, _, _, _)
AnalyzePersons(system, i, detections, analysis_fault, current_time) ==
    IF i > Len(system.person_trackers) THEN [system |-> system, raised |-> FALSE]
    ELSE IF ~(current_time - system.person_trackers[i].last_seen < ActiveWindow)
    THEN AnalyzePersons(system, i + 1, detections, analysis_fault, current_time)
    ELSE IF system.person_trackers[i].track_id \in analysis_fault
    THEN [system |-> system, raised |-> TRUE]
    ELSE AnalyzePersons(
             [system EXCEPT !.person_trackers[i] =
                 CarriedObjectsSeen(analyze_behavior(system, @, current_time),
                                    detections, current_time)],
             i + 1, detections, analysis_fault, current_time)

\* detect_objects is the detector (its result is the input detections); the drawing
\* steps 4 to 6 read the tracks and write none. Returns the system and whether an
\* exception left the method.
process_frame(system, detections, tracker_result, analysis_fault, current_time) ==
    AnalyzePersons(update_trackers(system, detections, tracker_result, current_time),
                   1, detections, analysis_fault, current_time)

\* Dispatched with the dedup comparison dropped: every significant call alerts.
DispatchedWithoutDedup(system, person, current_time, risk) ==
    IF risk.score >= system.risk_alert_threshold
    THEN [person |-> [person EXCEPT !.status = risk.primary_threat,
                                    !.last_notified_threat = risk.primary_threat],
          incidents |-> <<[timestamp |-> current_time, track_id |-> person.track_id,
                           risk_score |-> risk.score, primary_threat |-> risk.primary_threat]>>,
          alerts |-> <<[level |-> IF risk.score >= system.critical_alert_threshold
                                  THEN "CRITICAL" ELSE "HIGH",
                        track_id |-> person.track_id, risk_score |-> risk.score,
                        threat_type |-> risk.primary_threat, timestamp |-> current_time]>>]
    ELSE [person |-> [person EXCEPT !.status = risk.primary_threat,
                                    !.last_notified_threat = "normal"],
          incidents |-> <<>>, alerts |-> <<>>]

\* Dispatched with the else branch dropped: a track that is no longer significant
\* keeps its last_notified_threat.
DispatchedWithoutRearm(system, person, current_time, risk) ==
    IF risk.score >= system.risk_alert_threshold
    THEN IF risk.primary_threat # person.last_notified_threat
         THEN [person |-> [person EXCEPT !.status = risk.primary_threat,
                                         !.last_notified_threat = risk.primary_threat],
               incidents |-> <<[timestamp |-> current_time, track_id |-> person.track_id,
                                risk_score |-> risk.score,
                                primary_threat |-> risk.primary_threat]>>,
               alerts |-> <<[level |-> IF risk.score >= system.critical_alert_threshold
                                       THEN "CRITICAL" ELSE "HIGH",
                             track_id |-> person.track_id, risk_score |-> risk.score,
                             threat_type |-> risk.primary_threat, timestamp |-> current_time]>>]
         ELSE [person |-> [person EXCEPT !.status = risk.primary_threat],
               incidents |-> <<[timestamp |-> current_time, track_id |-> person.track_id,
                                risk_score |-> risk.score,
                                primary_threat |-> risk.primary_threat]>>,
               alerts |-> <<>>]
    ELSE [person |-> [person EXCEPT !.status = risk.primary_threat],
          incidents |-> <<>>, alerts |-> <<>>]

\* Dispatched with the incident appended only when no alert is: a notified threat
\* is left out of the call's incident list.
Dispatched_not_logging_the_alerted(system, person, current_time, risk) ==
    LET incident == [timestamp |-> current_time, track_id |-> person.track_id,
                     risk_score |-> risk.score, primary_threat |-> risk.primary_threat]
        alert == [level |-> IF risk.score >= system.critical_alert_threshold
                            THEN "CRITICAL" ELSE "HIGH",
                  track_id |-> person.track_id, risk_score |-> risk.score,
                  threat_type |-> risk.primary_threat, timestamp |-> current_time]
    IN IF risk.score >= system.risk_alert_threshold
       THEN IF risk.primary_threat # person.last_notified_threat
            THEN [person |-> [person EXCEPT !.status = risk.primary_threat,
                                            !.last_notified_threat = risk.primary_threat],
                  incidents |-> <<>>, alerts |-> <<alert>>]
            ELSE [person |-> [person EXCEPT !.status = risk.primary_threat],
                  incidents |-> <<incident>>, alerts |-> <<>>]
       ELSE [person |-> [person EXCEPT !.status = risk.primary_threat,
                                       !.last_notified_threat = "normal"],
             incidents |-> <<>>, alerts |-> <<>>]

\* Dispatched that alerts again whenever the score is critical
Dispatched_alerting_every_critical_score(system, person, current_time, risk) ==
    LET incident == [timestamp |-> current_time, track_id |-> person.track_id,
                     risk_score |-> risk.score, primary_threat |-> risk.primary_threat]
        alert == [level |-> IF risk.score >= system.critical_alert_threshold
                            THEN "CRITICAL" ELSE "HIGH",
                  track_id |-> person.track_id, risk_score |-> risk.score,
                  threat_type |-> risk.primary_threat, timestamp |-> current_time]
    IN IF risk.score >= system.risk_alert_threshold
       THEN IF \/ risk.primary_threat # person.last_notified_threat
               \/ risk.score >= system.critical_alert_threshold
            THEN [person |-> [person EXCEPT !.status = risk.primary_threat,
                                            !.last_notified_threat = risk.primary_threat],
                  incidents |-> <<incident>>, alerts |-> <<alert>>]
            ELSE [person |-> [person EXCEPT !.status = risk.primary_threat],
                  incidents |-> <<incident>>, alerts |-> <<>>]
       ELSE [person |-> [person EXCEPT !.status = risk.primary_threat,
                                       !.last_notified_threat = "normal"],
             incidents |-> <<>>, alerts |-> <<>>]

\* The try block of process_alerts for one person, risk being what
\* calculate_risk_score returned: the person as it is left, and the incidents and
\* alerts it adds.
Dispatched(system, person, current_time, risk) ==
    LET incident == [timestamp |-> current_time, track_id |-> person.track_id,
                     risk_score |-> risk.score, primary_threat |-> risk.primary_threat]
        alert == [level |-> IF risk.score >= system.critical_alert_threshold
                            THEN "CRITICAL" ELSE "HIGH",
                  track_id |-> person.track_id, risk_score |-> risk.score,
                  threat_type |-> risk.primary_threat, timestamp |-> current_time]
    IN IF risk.score >= system.risk_alert_threshold
       THEN IF risk.primary_threat # person.last_notified_threat
            THEN [person |-> [person EXCEPT !.status = risk.primary_threat,
                                            !.last_notified_threat = risk.primary_threat],
                  incidents |-> <<incident>>, alerts |-> <<alert>>]
            ELSE [person |-> [person EXCEPT !.status = risk.primary_threat],
                  incidents |-> <<incident>>, alerts |-> <<>>]
       ELSE [person |-> [person EXCEPT !.status = risk.primary_threat,
                                       !.last_notified_threat = "normal"],
             incidents |-> <<>>, alerts |-> <<>>]

\* DispatchPerson that marks the tracks it skips as unseen "normal" again
DispatchPerson_resetting_the_unseen(system, person, current_time, dispatch_fault) ==
    IF current_time - person.last_seen > ActiveWindow
    THEN [person |-> [person EXCEPT !.status = "normal", !.last_notified_threat = "normal"],
          incidents |-> <<>>, alerts |-> <<>>]
    ELSE IF person.track_id \in dispatch_fault
    THEN [person |-> person, incidents |-> <<>>, alerts |-> <<>>]
    ELSE Dispatched(system, person, current_time, calculate_risk_score(person, current_time))

\* The body of the loop of process_alerts for one person. dispatch_fault is the set
\* of track ids for which the try block raises (at calculate_risk_score, before any
\* write): the except clause logs and continues.
DispatchPerson(system, person, current_time, dispatch_fault) ==
    IF current_time - person.last_seen > ActiveWindow \/ person.track_id \in dispatch_fault
    THEN [person |-> person, incidents |-> <<>>, alerts |-> <<>>]
    ELSE Dispatched(system, person, current_time, calculate_risk_score(person, current_time))

\* What the loop has built once the i-th person is done.
Collected(acc, i, one) ==
    [system |-> [acc.system EXCEPT !.person_trackers[i] = one.person],
     incidents_to_log |-> acc.incidents_to_log \o one.incidents,
     reportable_alerts |-> acc.reportable_alerts \o one.alerts]

RECURSIVE DispatchPersons(_, _, _, _)
DispatchPersons(i, current_time, dispatch_fault, acc) ==
    IF i > Len(acc.system.person_trackers) THEN acc
    ELSE DispatchPersons(i + 1, current_time, dispatch_fault,
             Collected(acc, i, DispatchPerson(acc.system, acc.system.person_trackers[i],
                                              current_time, dispatch_fault)))

\* Returns the system as it is left, incidents_to_log and reportable_alerts.
process_alerts(system, current_time, dispatch_fault) ==
    DispatchPersons(1, current_time, dispatch_fault,
                    [system |-> system, incidents_to_log |-> <<>>, reportable_alerts |-> <<>>])

\* get_system_statistics: the active tracks, all tracks, and the active tracks by
\* the band of their risk score (fps and frame_count are the display's counters).
get_system_statistics(system, current_time) ==
    LET active_trackers ==
            {i \in 1..Len(system.person_trackers) :
                current_time - system.person_trackers[i].last_seen < ActiveWindow}
        risk_score(i) == calculate_risk_score(system.person_trackers[i], current_time).score
    IN [active_trackers |-> Cardinality(active_trackers),
        total_trackers |-> Len(system.person_trackers),
        risk_distribution |->
            [low |-> Cardinality({i \in active_trackers : risk_score(i) < Pts(10)}),
             medium |-> Cardinality({i \in active_trackers :
                            risk_score(i) >= Pts(10) /\ risk_score(i) < Pts(25)}),
             high |-> Cardinality({i \in active_trackers :
                          risk_score(i) >= Pts(25) /\ risk_score(i) < Pts(50)}),
             critical |-> Cardinality({i \in active_trackers : risk_score(i) >= Pts(50)})],
        zones |-> Len(system.security_zones)]

InactiveThreshold == 30

TrackerResetPeriod == 300

\* cleanup_trackers that also removes the tracks unseen for exactly the threshold.
cleanup_trackers_at_threshold(system, current_time, reset_raises) ==
    LET asked == /\ system.last_tracker_reset # None
                 /\ current_time - system.last_tracker_reset > TrackerResetPeriod
        last_tracker_reset ==
            IF system.last_tracker_reset = None THEN current_time
            ELSE IF asked /\ ~reset_raises THEN current_time
            ELSE system.last_tracker_reset
        stays(tracker) == ~(current_time - tracker.last_seen >= InactiveThreshold)
    IN [system EXCEPT !.last_tracker_reset = last_tracker_reset,
                      !.tracker_reset_at = IF asked THEN current_time ELSE @,
                      !.person_trackers = SelectSeq(@, stays)]

\* cleanup_trackers that resets the tracker from exactly the period on.
cleanup_trackers_resetting_at_period(system, current_time, reset_raises) ==
    LET asked == /\ system.last_tracker_reset # None
                 /\ current_time - system.last_tracker_reset >= TrackerResetPeriod
        last_tracker_reset ==
            IF system.last_tracker_reset = None THEN current_time
            ELSE IF asked /\ ~reset_raises THEN current_time
            ELSE system.last_tracker_reset
        stays(tracker) == ~(current_time - tracker.last_seen > InactiveThreshold)
    IN [system EXCEPT !.last_tracker_reset = last_tracker_reset,
                      !.tracker_reset_at = IF asked THEN current_time ELSE @,
                      !.person_trackers = SelectSeq(@, stays)]

\* reset_raises: tracker.reset() raises (caught: last_tracker_reset keeps its value).
cleanup_trackers(system, current_time, reset_raises) ==
    LET asked == /\ system.last_tracker_reset # None
                 /\ current_time - system.last_tracker_reset > TrackerResetPeriod
        last_tracker_reset ==
            IF system.last_tracker_reset = None THEN current_time
            ELSE IF asked /\ ~reset_raises THEN current_time
            ELSE system.last_tracker_reset
        stays(tracker) == ~(current_time - tracker.last_seen > InactiveThreshold)
    IN [system EXCEPT !.last_tracker_reset = last_tracker_reset,
                      !.tracker_reset_at = IF asked THEN current_time ELSE @,
                      !.person_trackers = SelectSeq(@, stays)]

(***************************************************************************)
(* The session layer: main.py's registries and endpoints, and the loop     *)
(* thread of video_processing.py, for one camera id.                       *)
(***************************************************************************)

VARIABLES
    now,                      \* the last reading of time.time()
    camera,                   \* the camera row: zones, loitering_threshold, risk_alert_threshold
    video_processing_threads, \* main.py's dicts at the camera's key: {} (no key) or
    thread_stop_flags,        \*   {t}, the thread (or the Event made for thread t)
    pause_events,
    camera_systems,           \* {} or {t}: the system thread t constructed
    stop_flag,                \* stop_flag[t]: the Event is set
    pause_event,              \* pause_event[t]: the Event is set (set = running)
    pc,                       \* pc[t]: where thread t is in video_processing_loop
    system,                   \* system[t]: the thread's SecurityMonitoringSystem
    incidents_to_log,         \* incidents_to_log[t], reportable_alerts[t]: what the
    reportable_alerts,        \*   thread's latest process_alerts returned
    frame_input,              \* frame_input[t]: what the thread's latest frame held
    frames,                   \* the number of frames read so far
    risk_call,                \* a call of risk_calculator.calculate_risk_score on its
                              \*   own: the track, the time and what it returned
    stalled,                  \* the collaborators that do not answer for now
    handed_off,               \* the tasks running in threads the loop started
    delivered                 \* the alerts sent to the viewers and those handed to the
                              \*   notification services, since the server is up

vars == <<now, camera, video_processing_threads, thread_stop_flags, pause_events,
          camera_systems, stop_flag, pause_event, pc, system, incidents_to_log,
          reportable_alerts, frame_input, frames, risk_call, stalled, handed_off,
          delivered>>

registries == <<video_processing_threads, thread_stop_flags, pause_events, camera_systems>>

\* The database, the websockets, the snapshot storage and the notification services
collaborators == <<stalled, handed_off, delivered>>

engine == <<now, system, incidents_to_log, reportable_alerts, frame_input, frames, risk_call,
            collaborators>>

MaxThreads == 2

Threads == 1..MaxThreads

\* threading.Thread.is_alive(): started and not yet returned
is_alive(t) == pc[t] \notin {"unstarted", "done"}

(***************************************************************************)
(* The environment's inputs                                                *)
(***************************************************************************)

RestrictedSquare ==
    [kind |-> "mapping", has_name |-> TRUE, name |-> "vault", has_points |-> TRUE,
     access_level |-> "restricted",
     points |-> [kind |-> "list",
                 items |-> <<[kind |-> "ok", x |-> 0, y |-> 0], [kind |-> "ok", x |-> 10, y |-> 0],
                             [kind |-> "ok", x |-> 10, y |-> 10], [kind |-> "ok", x |-> 0, y |-> 10]>>]]

\* Zone definitions that cannot be parsed, by what is wrong with them.
NoNameZone == [RestrictedSquare EXCEPT !.has_name = FALSE, !.access_level = "critical"]

NoPointsZone == [RestrictedSquare EXCEPT !.has_points = FALSE, !.name = "lobby"]

BadPointZone ==
    [RestrictedSquare EXCEPT !.name = "dock",
                             !.points = [kind |-> "list",
                                         items |-> <<[kind |-> "ok", x |-> 0, y |-> 0],
                                                     [kind |-> "missing_key"]>>]]

TextPointZone ==
    [RestrictedSquare EXCEPT !.name = "gate",
                             !.points = [kind |-> "list",
                                         items |-> <<[kind |-> "not_numeric"],
                                                     [kind |-> "ok", x |-> 0, y |-> 0]>>]]

\* A square of side 10 whose left edge is at x, as the zone editor saves it.
SquareZone(name, access_level, x) ==
    [RestrictedSquare EXCEPT !.name = name, !.access_level = access_level,
                             !.points = [kind |-> "list",
                                         items |-> <<[kind |-> "ok", x |-> x, y |-> 0],
                                                     [kind |-> "ok", x |-> x + 10, y |-> 0],
                                                     [kind |-> "ok", x |-> x + 10, y |-> 10],
                                                     [kind |-> "ok", x |-> x, y |-> 10]>>]]

\* A public strip (no access_level key: the default) over x = 0 .. 70, listed first.
PublicStrip ==
    [RestrictedSquare EXCEPT !.name = "hall", !.access_level = "",
                             !.points = [kind |-> "list",
                                         items |-> <<[kind |-> "ok", x |-> 0, y |-> 0],
                                                     [kind |-> "ok", x |-> 70, y |-> 0],
                                                     [kind |-> "ok", x |-> 70, y |-> 10],
                                                     [kind |-> "ok", x |-> 0, y |-> 10]>>]]

\* Zones of fewer than 3 vertices: a segment across the square, at the height of
\* the boxes' centres, one point in the middle of the square, and no vertex at all.
SegmentZone ==
    [RestrictedSquare EXCEPT !.name = "line",
                             !.points = [kind |-> "list",
                                         items |-> <<[kind |-> "ok", x |-> 0, y |-> 5],
                                                     [kind |-> "ok", x |-> 10, y |-> 5]>>]]

VertexZone ==
    [RestrictedSquare EXCEPT !.name = "spot",
                             !.points = [kind |-> "list",
                                         items |-> <<[kind |-> "ok", x |-> 5, y |-> 5]>>]]

EmptyZone ==
    [RestrictedSquare EXCEPT !.name = "void", !.points = [kind |-> "list", items |-> <<>>]]

\* The zones column of the camera row, by name.
ZonesJson(name) ==
    LET object(entries) == [kind |-> "object", zones_is_dict |-> TRUE, entries |-> entries]
    IN CASE name = "one_zone" -> object(<<RestrictedSquare>>)
         [] name = "zone_and_no_name" -> object(<<RestrictedSquare, NoNameZone>>)
         [] name = "no_points_and_zone" -> object(<<NoPointsZone, RestrictedSquare>>)
         [] name = "zone_and_bad_point" -> object(<<RestrictedSquare, BadPointZone>>)
         [] name = "zone_and_text_point" -> object(<<RestrictedSquare, TextPointZone>>)
         [] name = "null" -> [kind |-> "none"]
         [] name = "invalid" -> [kind |-> "invalid"]
         [] name = "not_object" -> [kind |-> "not_object"]
         [] name = "segment_zone" -> object(<<SegmentZone>>)
         [] name = "vertex_zone" -> object(<<VertexZone>>)
         [] name = "empty_zone" -> object(<<EmptyZone>>)
         [] name = "mixed_zones" ->
                object(<<PublicStrip, RestrictedSquare, SquareZone("server_room", "critical", 20),
                         SquareZone("desk", "monitored", 40)>>)

ZoneConfigs == {"one_zone", "zone_and_no_name", "no_points_and_zone", "zone_and_bad_point",
                "zone_and_text_point", "null"}

\* The tracker's box of a person standing in the square (centre (5, 5)) and of one
\* beside it (centre (15, 5)).
InsideBox == <<0, 0, 10, 10>>

OutsideBox == <<10, 0, 20, 10>>

\* Boxes with the centres (25, 5), (45, 5) and (85, 5).
CriticalBox == <<20, 0, 30, 10>>

MonitoredBox == <<40, 0, 50, 10>>

FarBox == <<80, 0, 90, 10>>

PersonDetection(bbox) == [class |-> "person", confidence |-> 9, bbox |-> bbox]

\* A knife held by whoever stands in or beside the square.
WeaponDetection(confidence) == [class |-> "knife", confidence |-> confidence, bbox |-> <<8, 4, 12, 6>>]

\* The tracker's possible results on ids and boxes: every assignment of a box to a
\* subset of the ids, listed by increasing id.
RECURSIVE TrackLists(_, _)
TrackLists(ids, boxes) ==
    IF ids = {} THEN {<<>>}
    ELSE LET id == CHOOSE i \in ids : \A j \in ids : i <= j
             rest == TrackLists(ids \ {id}, boxes)
         IN rest \cup {<<[bbox |-> b, track_id |-> id]>> \o r : b \in boxes, r \in rest}

\* What one frame holds: the clock's advance since the last frame, whether cap.read
\* succeeded, the detector's detections, the tracker's result on them, and the
\* tracks whose analysis or dispatch raises.
NoFrame ==
    [dt |-> 0, ret |-> FALSE, detections |-> <<>>,
     tracker_result |-> [raised |-> FALSE, tracks |-> <<>>],
     analysis_fault |-> {}, dispatch_fault |-> {}]

Frame(dt, tracks, tracker_raised, weapons, analysis_fault, dispatch_fault) ==
    [dt |-> dt, ret |-> TRUE,
     detections |-> [i \in 1..Len(tracks) |-> PersonDetection(tracks[i].bbox)] \o weapons,
     tracker_result |-> [raised |-> tracker_raised, tracks |-> tracks],
     analysis_fault |-> analysis_fault, dispatch_fault |-> dispatch_fault]

\* The frames over the given steps of the clock, track ids, boxes, weapon
\* confidences and faulty track ids (at most one fault per frame: the analysis or
\* the dispatch of one track).
FrameInputs(dts, ids, boxes, confidences, faulty) ==
    LET weapons == {<<>>} \cup {<<WeaponDetection(c)>> : c \in confidences}
        faults == {<<{}, {}>>} \cup {<<{f}, {}>> : f \in faulty} \cup {<<{}, {f}>> : f \in faulty}
    IN {Frame(dt, tr, FALSE, w, f[1], f[2]) :
            dt \in dts, tr \in TrackLists(ids, boxes), w \in weapons, f \in faults}

\* The frames on which tracker.update raises: it was given one person detection.
TrackerFailures(dts) ==
    {[Frame(dt, <<>>, TRUE, <<>>, {}, {}) EXCEPT !.detections = <<PersonDetection(InsideBox)>>] :
        dt \in dts}

MaxFrames == 2

SessionInputs == FrameInputs({4}, {1, 2}, {InsideBox}, {}, {1}) \cup TrackerFailures({4})

(***************************************************************************)
(* Initial state: the server is up, no analysis has been started.          *)
(***************************************************************************)

\* system[t] before thread t has constructed its system
NoSystem == SecurityMonitoringSystem([kind |-> "none"])

\* risk_call while the calculator has not been called on its own
NoRiskCall ==
    [person |-> PersonTracker(0), current_time |-> 0, called |-> FALSE,
     risk |-> [score |-> 0, primary_threat |-> "normal"]]

\* No snapshot upload and no notification is running.
NoTasks == [snapshots |-> 0, notifications |-> 0]

NoDeliveries == [broadcast |-> <<>>, notified |-> <<>>]

ServerUp(zone_configs) ==
    /\ now = 0
    /\ camera \in [zones : zone_configs,
                   loitering_threshold : {DefaultLoiteringThreshold},
                   risk_alert_threshold : {Pts(DefaultRiskAlertThreshold)}]
    /\ video_processing_threads = {}
    /\ thread_stop_flags = {}
    /\ pause_events = {}
    /\ camera_systems = {}
    /\ stop_flag = [t \in Threads |-> FALSE]
    /\ pause_event = [t \in Threads |-> FALSE]
    /\ pc = [t \in Threads |-> "unstarted"]
    /\ system = [t \in Threads |-> NoSystem]
    /\ incidents_to_log = [t \in Threads |-> <<>>]
    /\ reportable_alerts = [t \in Threads |-> <<>>]
    /\ frame_input = [t \in Threads |-> NoFrame]
    /\ frames = 0
    /\ stalled = {}
    /\ handed_off = NoTasks
    /\ delivered = NoDeliveries

InitWith(zone_configs) == ServerUp(zone_configs) /\ risk_call = NoRiskCall

Init == InitWith(ZoneConfigs)

(***************************************************************************)
(* main.py: the endpoints                                                  *)
(***************************************************************************)

\* POST /cameras/{id}/start; t is the Thread object it creates. A request for a
\* camera whose registered thread is alive is answered 409 and changes nothing.
start_camera_analysis(t) ==
    /\ pc[t] = "unstarted"
    /\ \A u \in Threads : u < t => pc[u] # "unstarted"
    /\ ~(\E u \in video_processing_threads : is_alive(u))
    /\ stop_flag' = [stop_flag EXCEPT ![t] = FALSE]
    /\ pause_event' = [pause_event EXCEPT ![t] = TRUE]
    /\ thread_stop_flags' = {t}
    /\ pause_events' = {t}
    /\ video_processing_threads' = {t}
    /\ pc' = [pc EXCEPT ![t] = "init"]
    /\ UNCHANGED <<camera, camera_systems, engine>>

\* POST /cameras/{id}/stop: 404 without a stop flag; else set it and pop the four keys.
stop_camera_analysis ==
    /\ thread_stop_flags # {}
    /\ stop_flag' = [t \in Threads |-> stop_flag[t] \/ t \in thread_stop_flags]
    /\ video_processing_threads' = {}
    /\ thread_stop_flags' = {}
    /\ pause_events' = {}
    /\ camera_systems' = {}
    /\ UNCHANGED <<camera, pause_event, pc, engine>>

\* POST /cameras/{id}/pause
pause_camera_analysis ==
    /\ pause_events # {}
    /\ pause_event' = [t \in Threads |-> pause_event[t] /\ t \notin pause_events]
    /\ UNCHANGED <<camera, registries, stop_flag, pc, engine>>

\* POST /cameras/{id}/play
play_camera_analysis ==
    /\ pause_events # {}
    /\ pause_event' = [t \in Threads |-> pause_event[t] \/ t \in pause_events]
    /\ UNCHANGED <<camera, registries, stop_flag, pc, engine>>

\* GET /stats/{id}: the statistics of the registered system at the clock's reading,
\* 404 when camera_systems holds no system of the camera.
get_system_stats ==
    IF camera_systems # {}
    THEN [status |-> 200,
          stats |-> get_system_statistics(system[CHOOSE t \in camera_systems : TRUE], now)]
    ELSE [status |-> 404, stats |-> [detail |-> "Analysis not running or camera system not found"]]

(***************************************************************************)
(* video_processing.py: video_processing_loop, thread t                    *)
(***************************************************************************)

\* Lines 106-125: construct the system, set the camera's thresholds, register the
\* system, open the capture. An exception of the constructor (a ValueError of the
\* zones, initialize_models raising) is caught by the function's except clause and
\* the thread returns; so it does when the capture does not open.
ThreadInit(t, models_ok, cap_ok) ==
    /\ pc[t] = "init"
    /\ IF LoadZones(ZonesJson(camera.zones)).raised \/ ~models_ok
       THEN /\ pc' = [pc EXCEPT ![t] = "done"]
            /\ UNCHANGED <<system, camera_systems>>
       ELSE /\ system' = [system EXCEPT ![t] =
                    [SecurityMonitoringSystem(ZonesJson(camera.zones))
                        EXCEPT !.loitering_threshold = camera.loitering_threshold,
                               !.risk_alert_threshold = camera.risk_alert_threshold]]
            /\ camera_systems' = {t}
            /\ pc' = [pc EXCEPT ![t] = IF cap_ok THEN "loop" ELSE "done"]
    /\ UNCHANGED <<now, camera, video_processing_threads, thread_stop_flags, pause_events,
                   stop_flag, pause_event, incidents_to_log, reportable_alerts,
                   frame_input, frames, risk_call, collaborators>>

\* Line 127: while not stop_flag.is_set()
LoopCheck(t) ==
    /\ pc[t] = "loop"
    /\ pc' = [pc EXCEPT ![t] = IF stop_flag[t] THEN "done" ELSE "wait"]
    /\ UNCHANGED <<camera, registries, stop_flag, pause_event, engine>>

\* A wait that returns whether the event is set or not
PauseWait_passing_when_cleared(t) ==
    /\ pc[t] = "wait"
    /\ pc' = [pc EXCEPT ![t] = "chk"]
    /\ UNCHANGED <<camera, registries, stop_flag, pause_event, engine>>

\* Line 128: pause_event.wait() returns once the event is set
PauseWait(t) ==
    /\ pc[t] = "wait"
    /\ pause_event[t]
    /\ pc' = [pc EXCEPT ![t] = "chk"]
    /\ UNCHANGED <<camera, registries, stop_flag, pause_event, engine>>

\* Lines 130-131: if stop_flag.is_set(): break
StopCheck(t) ==
    /\ pc[t] = "chk"
    /\ pc' = [pc EXCEPT ![t] = IF stop_flag[t] THEN "done" ELSE "read"]
    /\ UNCHANGED <<camera, registries, stop_flag, pause_event, engine>>

\* Lines 133-136: cap.read() gave no frame: sleep, continue
ReadNoFrame(t) ==
    /\ pc[t] = "read"
    /\ pc' = [pc EXCEPT ![t] = "loop"]
    /\ UNCHANGED <<camera, registries, stop_flag, pause_event, engine>>

\* The loop's variables once the frame is processed: dispatched is what
\* process_alerts returned, processed what process_frame returned.
FrameDone(t, current_loop_time, dispatched, processed, then) ==
    /\ now' = current_loop_time
    /\ system' = [system EXCEPT ![t] = processed.system]
    /\ incidents_to_log' = [incidents_to_log EXCEPT ![t] = dispatched.incidents_to_log]
    /\ reportable_alerts' = [reportable_alerts EXCEPT ![t] = dispatched.reportable_alerts]
    /\ pc' = [pc EXCEPT ![t] = IF processed.raised THEN "done" ELSE then]

\* process_frame, called on the system process_alerts left
FrameProcessed(t, input, current_loop_time, dispatched, then) ==
    FrameDone(t, current_loop_time, dispatched,
              process_frame(dispatched.system, input.detections, input.tracker_result,
                            input.analysis_fault, current_loop_time), then)

\* Lines 133-145 with a frame: read the clock, process_alerts, then process_frame;
\* the thread goes on at then. An exception that leaves process_frame is caught
\* outside the while loop (line 224): the thread returns.
FrameIn(t, input, max_frames, then) ==
    /\ pc[t] = "read"
    /\ input.ret
    /\ frames < max_frames
    /\ FrameProcessed(t, input, now + input.dt,
                      process_alerts(system[t], now + input.dt, input.dispatch_fault), then)
    /\ frame_input' = [frame_input EXCEPT ![t] = input]
    /\ frames' = frames + 1
    /\ UNCHANGED <<camera, registries, stop_flag, pause_event, risk_call, collaborators>>

\* Lines 133-222 with a frame, the database and the websockets answering at once:
\* the incidents are written, the alerts and the frame sent (lines 147-222), and
\* the thread is back at the head of the loop. The threads it starts for the
\* snapshots and the notifications are followed in IoSpec only.
Iterate(t, input, max_frames) == FrameIn(t, input, max_frames, "loop")

\* A step of thread t; the frames it reads are drawn from inputs, at most
\* max_frames of them in a behaviour.
ThreadStep(t, inputs, max_frames) ==
    \/ \E models_ok, cap_ok \in BOOLEAN : ThreadInit(t, models_ok, cap_ok)
    \/ LoopCheck(t)
    \/ PauseWait(t)
    \/ StopCheck(t)
    \/ ReadNoFrame(t)
    \/ \E input \in inputs : Iterate(t, input, max_frames)

Requests ==
    \/ \E t \in Threads : start_camera_analysis(t)
    \/ stop_camera_analysis
    \/ pause_camera_analysis
    \/ play_camera_analysis

(***************************************************************************)
(* Spec: a camera under any zone configuration, every endpoint, two frames *)
(* of one or two persons in the square, with faults.                       *)
(***************************************************************************)

Next == Requests \/ \E t \in Threads : ThreadStep(t, SessionInputs, MaxFrames)

Spec == Init /\ [][Next]_vars

(***************************************************************************)
(* FairSpec: the same requests over a camera with one zone and one person; *)
(* a started thread is scheduled, so each step it can take is eventually   *)
(* taken.                                                                  *)
(***************************************************************************)

FairInputs == FrameInputs({4}, {1}, {InsideBox}, {}, {})

FairNext == Requests \/ \E t \in Threads : ThreadStep(t, FairInputs, MaxFrames)

FairSpec ==
    /\ InitWith({"one_zone"})
    /\ [][FairNext]_vars
    /\ \A t \in Threads : WF_vars(ThreadStep(t, FairInputs, MaxFrames))

(***************************************************************************)
(* LoopSpec: one camera with the restricted square, started and left       *)
(* running; a person in the square, seen or not, with or without a knife   *)
(* of low or high confidence, frames 4 seconds apart.                      *)
(***************************************************************************)

MaxLoopFrames == 5

LoopInputs == FrameInputs({4}, {1}, {InsideBox}, {5, 9}, {})

LoopNext ==
    \/ \E t \in Threads : start_camera_analysis(t)
    \/ \E t \in Threads : ThreadStep(t, LoopInputs, MaxLoopFrames)

LoopSpec == InitWith({"one_zone"}) /\ [][LoopNext]_vars

(***************************************************************************)
(* LongRunSpec: the camera started and left running while a person comes   *)
(* and stays away, frames 4, 5 or 31 seconds apart, the tracker failing on *)
(* some.                                                                   *)
(***************************************************************************)

MaxLongRunFrames == 3

LongRunInputs == FrameInputs({4, 5, 31}, {1}, {InsideBox}, {}, {}) \cup TrackerFailures({4})

LongRunNext ==
    \/ \E t \in Threads : start_camera_analysis(t)
    \/ \E t \in Threads : ThreadStep(t, LongRunInputs, MaxLongRunFrames)

LongRunSpec == InitWith({"one_zone"}) /\ [][LongRunNext]_vars

(***************************************************************************)
(* StoreSpec: the stores that a running loop builds of two persons, frames *)
(* 1 or 30 seconds apart, and cleanup_trackers applied to them. Nothing in *)
(* the repository calls cleanup_trackers: EvictionPass is a caller that    *)
(* runs it between two iterations of the loop, at the loop's clock.        *)
(***************************************************************************)

EvictionPass(t, reset_raises) ==
    /\ pc[t] = "loop"
    /\ system' = [system EXCEPT ![t] = cleanup_trackers(@, now, reset_raises)]
    /\ UNCHANGED <<now, camera, registries, stop_flag, pause_event, pc, incidents_to_log,
                   reportable_alerts, frame_input, frames, risk_call, collaborators>>

MaxStoreFrames == 3

StoreInputs == FrameInputs({1, 30}, {1, 2}, {InsideBox}, {}, {})

StoreNext ==
    \/ \E t \in Threads : start_camera_analysis(t)
    \/ \E t \in Threads : ThreadStep(t, StoreInputs, MaxStoreFrames)
    \/ \E t \in Threads : \E reset_raises \in BOOLEAN : EvictionPass(t, reset_raises)

StoreSpec == InitWith({"one_zone"}) /\ [][StoreNext]_vars

(***************************************************************************)
(* ZoneSpec: a camera whose zones column is text that is no JSON, JSON     *)
(* that is no object, or a public strip that holds a restricted, a         *)
(* critical and a monitored square; a person seen in one of the squares,   *)
(* in the strip beside them or off the strip, frames 30 or 60 s apart.     *)
(***************************************************************************)

MalformedZoneConfigs == {"invalid", "not_object"}

MaxZoneFrames == 3

ZoneInputs ==
    FrameInputs({30, 60}, {1}, {InsideBox, OutsideBox, CriticalBox, MonitoredBox, FarBox}, {}, {})

ZoneNext ==
    \/ \E t \in Threads : start_camera_analysis(t)
    \/ \E t \in Threads : ThreadStep(t, ZoneInputs, MaxZoneFrames)

ZoneSpec == InitWith(MalformedZoneConfigs \cup {"mixed_zones"}) /\ [][ZoneNext]_vars

(***************************************************************************)
(* ScoreSpec: calculate_risk_score called on its own, at two times, on the *)
(* tracks that the engine can hold at time 695: a position history (one    *)
(* sample, or a full deque of 30 samples one second apart of a person who  *)
(* stands, runs in a line or zigzags) and up to MaxEvents events as the    *)
(* checks create them (types, confidences, durations), in the order and    *)
(* with the spacing in which analyze_behavior appends them.                *)
(***************************************************************************)

\* The cooldown of each check, in seconds
Cooldown(event_type) ==
    CASE event_type = "intrusion" -> 60
      [] event_type = "armed_person" -> 30
      [] event_type = "suspicious_loitering" -> 60
      [] event_type = "erratic_movement" -> 30
      [] event_type = "running" -> 20

\* The place of the check that creates the type in analyze_behavior
CheckOrder(event_type) ==
    CASE event_type = "intrusion" -> 1
      [] event_type = "armed_person" -> 2
      [] event_type = "suspicious_loitering" -> 3
      [] event_type \in {"erratic_movement", "running"} -> 4

\* The i-th position of a person who stands, runs in a line (100 px a second) or
\* zigzags (30 px a second).
PathPoint(path, i) ==
    CASE path = "still" -> <<5, 5>>
      [] path = "line" -> <<100 * i, 5>>
      [] path = "zigzag" -> <<IF i % 2 = 0 THEN 5 ELSE 35, 5>>

\* The track after n samples of the path, one second apart, the last at last_ts
RECURSIVE Walked(_, _, _)
Walked(path, n, last_ts) ==
    IF n = 0 THEN PersonTracker(1)
    ELSE LET pos == PathPoint(path, n)
         IN add_position(Walked(path, n - 1, last_ts - 1), pos, last_ts,
                         <<pos[1] - 5, 0, pos[1] + 5, 10>>)

LastSeen == 695

EventPool ==
    {RiskEvent("intrusion", 12, 9, ts, 0) : ts \in {500, 635, 695}}
    \cup {RiskEvent("armed_person", 0, c, ts, 0) : c \in {5, 7, 9}, ts \in {635, 695}}
    \cup {RiskEvent("suspicious_loitering", 8, 8, 690, d) : d \in {11, 45, 130}}
    \cup {RiskEvent("erratic_movement", 6, 7, 690, 0), RiskEvent("running", 5, 8, 690, 0)}

MaxEvents == 3

\* Events are appended in the order of time and, within a pass, of the checks;
\* events of one type are a cooldown apart.
AsAppended(events) ==
    /\ \A k \in 1..(Len(events) - 1) :
           \/ events[k].timestamp < events[k + 1].timestamp
           \/ /\ events[k].timestamp = events[k + 1].timestamp
              /\ CheckOrder(events[k].event_type) < CheckOrder(events[k + 1].event_type)
    /\ \A j, k \in 1..Len(events) :
           (j < k /\ events[j].event_type = events[k].event_type) =>
               events[k].timestamp - events[j].timestamp >= Cooldown(events[j].event_type)

EventLists ==
    UNION {{events \in [1..n -> EventPool] : AsAppended(events)} : n \in 0..MaxEvents}

\* A track with fewer than 30 samples still holds the sample of every pass that
\* created an event; the loitering and movement checks need 10 and 5 samples.
Histories ==
    {Walked("still", 1, LastSeen)}
    \cup {Walked(path, PositionsMaxLen, LastSeen) : path \in {"still", "line", "zigzag"}}

EventsHeldBy(walked) ==
    {events \in EventLists :
        Len(walked.positions) < PositionsMaxLen =>
            \A k \in 1..Len(events) :
                /\ events[k].timestamp \in Range(walked.timestamps)
                /\ CheckOrder(events[k].event_type) < 3}

ScoredTracks ==
    UNION {{[walked EXCEPT !.risk_events = events] : events \in EventsHeldBy(walked)} :
              walked \in Histories}

ScoreTimes == {695, 700, 706}

\* A call of calculate_risk_score: it reads the track and writes nothing.
Score(current_time) ==
    /\ current_time >= risk_call.current_time
    /\ risk_call' = [risk_call EXCEPT !.current_time = current_time,
                                      !.called = TRUE,
                                      !.risk = calculate_risk_score(risk_call.person, current_time)]
    /\ UNCHANGED <<now, camera, registries, stop_flag, pause_event, pc, system,
                   incidents_to_log, reportable_alerts, frame_input, frames, collaborators>>

ScoreInit ==
    /\ ServerUp({"one_zone"})
    /\ risk_call \in {[NoRiskCall EXCEPT !.person = p, !.current_time = p.last_seen] :
                          p \in ScoredTracks}

ScoreNext == \E current_time \in ScoreTimes : Score(current_time)

ScoreSpec == ScoreInit /\ [][ScoreNext]_vars

(***************************************************************************)
(* DegenerateSpec: sessions on a camera whose one zone, restricted, has    *)
(* fewer than 3 vertices; a person is seen on the zone's segment or        *)
(* vertex, or beside it.                                                   *)
(***************************************************************************)

DegenerateZoneConfigs == {"segment_zone", "vertex_zone", "empty_zone"}

DegenerateInputs == FrameInputs({30, 60}, {1}, {InsideBox, OutsideBox}, {}, {})

DegenerateNext ==
    \/ \E t \in Threads : start_camera_analysis(t)
    \/ \E t \in Threads : ThreadStep(t, DegenerateInputs, MaxZoneFrames)

DegenerateSpec == InitWith(DegenerateZoneConfigs) /\ [][DegenerateNext]_vars

(***************************************************************************)
(* EntrySpec: the camera with the restricted square, started and left      *)
(* running; a person, with or without a knife of high confidence, is seen  *)
(* in the square or beside it, frames 4 seconds apart.                     *)
(***************************************************************************)

MaxEntryFrames == 4

EntryInputs == FrameInputs({4}, {1}, {InsideBox, OutsideBox}, {9}, {})

EntryNext ==
    \/ \E t \in Threads : start_camera_analysis(t)
    \/ \E t \in Threads : ThreadStep(t, EntryInputs, MaxEntryFrames)

EntrySpec == InitWith({"one_zone"}) /\ [][EntryNext]_vars

(***************************************************************************)
(* ResetSpec: the store of a loop that sees a person, or nobody, in frames *)
(* 30, 300 or 301 seconds apart, and cleanup_trackers applied to it.       *)
(***************************************************************************)

ResetInputs == FrameInputs({30, 300, 301}, {1}, {InsideBox}, {}, {})

ResetNext ==
    \/ \E t \in Threads : start_camera_analysis(t)
    \/ \E t \in Threads : ThreadStep(t, ResetInputs, MaxStoreFrames)
    \/ \E t \in Threads : \E reset_raises \in BOOLEAN : EvictionPass(t, reset_raises)

ResetSpec == InitWith({"one_zone"}) /\ [][ResetNext]_vars

(***************************************************************************)
(* PauseSpec: sessions on the camera with the restricted square under      *)
(* every request; a person stands in the square, or is not seen, 4 s a     *)
(* frame.                                                                  *)
(***************************************************************************)

PauseNext ==
    \/ Requests
    \/ \E t \in Threads :
           ThreadStep(t, FrameInputs({4}, {1}, {InsideBox}, {}, {}), MaxFrames)

PauseSpec == InitWith({"one_zone"}) /\ [][PauseNext]_vars

(***************************************************************************)
(* IoSpec: the iteration of the loop step by step, with its collaborators: *)
(* the frame is processed (lines 133-145), the incidents are written (147- *)
(* 166), the alerts flagged and sent (168-217), the frame sent (219-222).  *)
(* A collaborator may stop answering, and answer again, at any time. A     *)
(* person stands in the square, with or without a knife, 4 s a frame.      *)
(***************************************************************************)

Collaborators == {"database", "websocket", "storage", "notifier"}

\* The collaborators whose answer thread t is waiting for, where it stands:
\*   persist    crud.create_incident of each incident (db.commit, db.refresh)
\*   alert      crud.get_user, the flagging of the incident (db.commit) and
\*              asyncio.run(broadcast_callback(...)) of each alert
\*   broadcast  asyncio.run(broadcast_callback(camera.id, frame_bytes))
AwaitedByLoop(t) ==
    CASE pc[t] = "persist" /\ incidents_to_log[t] # <<>> -> {"database"}
      [] pc[t] = "alert" /\ reportable_alerts[t] # <<>> -> {"database", "websocket"}
      [] pc[t] = "broadcast" -> {"websocket"}
      [] OTHER -> {}

\* Lines 147-166: the loop thread writes each incident and starts a thread for its
\* snapshot.
PersistIncidents(t) ==
    /\ pc[t] = "persist"
    /\ AwaitedByLoop(t) \cap stalled = {}
    /\ handed_off' = [handed_off EXCEPT !.snapshots = @ + Len(incidents_to_log[t])]
    /\ pc' = [pc EXCEPT ![t] = "alert"]
    /\ UNCHANGED <<now, camera, registries, stop_flag, pause_event, system, incidents_to_log,
                   reportable_alerts, frame_input, frames, risk_call, stalled,
                   delivered>>

\* DeliverAlerts that starts the notification thread for every alert
DeliverAlerts_notifying_every_alert(t) ==
    /\ pc[t] = "alert"
    /\ AwaitedByLoop(t) \cap stalled = {}
    /\ handed_off' = [handed_off EXCEPT !.notifications = @ + Len(reportable_alerts[t])]
    /\ delivered' = [broadcast |-> delivered.broadcast \o reportable_alerts[t],
                     notified |-> delivered.notified \o reportable_alerts[t]]
    /\ pc' = [pc EXCEPT ![t] = "broadcast"]
    /\ UNCHANGED <<now, camera, registries, stop_flag, pause_event, system, incidents_to_log,
                   reportable_alerts, frame_input, frames, risk_call, stalled>>

\* Lines 168-217: the loop thread reads the owner (the user who started the
\* analysis: no endpoint deletes a user, the lookup finds them), flags the incident
\* of each alert and sends the alert to the websockets; it starts a thread for the
\* notifications of a CRITICAL alert.
DeliverAlerts(t) ==
    LET critical(alert) == alert.level = "CRITICAL"
    IN /\ pc[t] = "alert"
       /\ AwaitedByLoop(t) \cap stalled = {}
       /\ handed_off' = [handed_off EXCEPT !.notifications =
                             @ + Len(SelectSeq(reportable_alerts[t], critical))]
       /\ delivered' = [broadcast |-> delivered.broadcast \o reportable_alerts[t],
                        notified |-> delivered.notified
                                         \o SelectSeq(reportable_alerts[t], critical)]
       /\ pc' = [pc EXCEPT ![t] = "broadcast"]
       /\ UNCHANGED <<now, camera, registries, stop_flag, pause_event, system, incidents_to_log,
                      reportable_alerts, frame_input, frames, risk_call, stalled>>

\* Lines 219-222: the loop thread sends the frame to the websockets and sleeps.
BroadcastFrame(t) ==
    /\ pc[t] = "broadcast"
    /\ AwaitedByLoop(t) \cap stalled = {}
    /\ pc' = [pc EXCEPT ![t] = "loop"]
    /\ UNCHANGED <<camera, registries, stop_flag, pause_event, engine>>

\* upload_and_save_snapshot_in_thread returns: the snapshot is uploaded and its url
\* saved.
SnapshotSaved ==
    /\ handed_off.snapshots > 0
    /\ {"storage", "database"} \cap stalled = {}
    /\ handed_off' = [handed_off EXCEPT !.snapshots = @ - 1]
    /\ UNCHANGED <<now, camera, registries, stop_flag, pause_event, pc, system, incidents_to_log,
                   reportable_alerts, frame_input, frames, risk_call, stalled,
                   delivered>>

\* send_notifications_in_thread returns.
NotificationsSent ==
    /\ handed_off.notifications > 0
    /\ "notifier" \notin stalled
    /\ handed_off' = [handed_off EXCEPT !.notifications = @ - 1]
    /\ UNCHANGED <<now, camera, registries, stop_flag, pause_event, pc, system, incidents_to_log,
                   reportable_alerts, frame_input, frames, risk_call, stalled,
                   delivered>>

Stall(collaborator) ==
    /\ collaborator \notin stalled
    /\ stalled' = stalled \cup {collaborator}
    /\ UNCHANGED <<now, camera, registries, stop_flag, pause_event, pc, system, incidents_to_log,
                   reportable_alerts, frame_input, frames, risk_call, handed_off,
                   delivered>>

Recover(collaborator) ==
    /\ collaborator \in stalled
    /\ stalled' = stalled \ {collaborator}
    /\ UNCHANGED <<now, camera, registries, stop_flag, pause_event, pc, system, incidents_to_log,
                   reportable_alerts, frame_input, frames, risk_call, handed_off,
                   delivered>>

MaxIoFrames == 3

IoInputs == FrameInputs({4}, {1}, {InsideBox}, {9}, {})

IoNext ==
    \/ \E t \in Threads : start_camera_analysis(t)
    \/ \E t \in Threads :
           \/ \E models_ok, cap_ok \in BOOLEAN : ThreadInit(t, models_ok, cap_ok)
           \/ LoopCheck(t)
           \/ PauseWait(t)
           \/ StopCheck(t)
           \/ ReadNoFrame(t)
           \/ \E input \in IoInputs : FrameIn(t, input, MaxIoFrames, "persist")
           \/ PersistIncidents(t)
           \/ DeliverAlerts(t)
           \/ BroadcastFrame(t)
    \/ SnapshotSaved
    \/ NotificationsSent
    \/ \E collaborator \in Collaborators : Stall(collaborator) \/ Recover(collaborator)

IoSpec == InitWith({"one_zone"}) /\ [][IoNext]_vars

(***************************************************************************)
(* WalkSpec: a loop that has been running on the camera with the           *)
(* restricted square and goes on, watching one person:                     *)
(*   track 1 has stood in the square for 9 frames (or came to it from 100  *)
(*           px away 8 frames ago) and now stays or steps 100 px away and  *)
(*           back, frames 1, 10 or 60 s apart;                             *)
(*   track 2 runs along a line at 100 px/s, beside the zone;               *)
(*   track 3 goes to and fro at 30 px/s, turning at every frame;           *)
(*   track 4 stands in the square, with or without a knife in its hand,    *)
(*           which the detector may report twice, more and less sure;      *)
(*   track 5 stands in the square, seen every 300 or 600 s;                *)
(*   track 6 has stood in the square for 29 frames, the last 9 with a      *)
(*           knife, and stays, one frame a second;                         *)
(*   track 7 walks at 30 px/s, one frame a second, and goes straight on or *)
(*           turns left at every frame.                                    *)
(* The frames of tracks 2 to 4 are 10 or 20 s apart.                       *)
(***************************************************************************)

\* The tracker's box, 10 px wide and high, of a person at (x, y)
BoxAt(x, y) == <<x - 5, y - 5, x + 5, y + 5>>

AwayBox == BoxAt(105, 5)

\* A frame that shows the one person, dt after the frame before
WalkFrame(dt, track_id, bbox, weapons) ==
    Frame(dt, <<[bbox |-> bbox, track_id |-> track_id]>>, FALSE, weapons, {}, {})

\* The frames the loop has processed so far, one second apart
WalkScripts ==
    {[i \in 1..9 |-> WalkFrame(1, 1, InsideBox, <<>>)],
     <<WalkFrame(1, 1, AwayBox, <<>>)>> \o [i \in 1..8 |-> WalkFrame(1, 1, InsideBox, <<>>)],
     [i \in 1..4 |-> WalkFrame(1, 2, BoxAt(100 * i, 25), <<>>)],
     [i \in 1..4 |-> WalkFrame(1, 3, BoxAt(IF i % 2 = 1 THEN 35 ELSE 5, 25), <<>>)],
     <<WalkFrame(1, 4, InsideBox, <<>>)>>,
     <<WalkFrame(1, 5, InsideBox, <<>>)>>,
     [i \in 1..29 |-> WalkFrame(1, 6, InsideBox,
                                 IF i > 20 THEN <<WeaponDetection(9)>> ELSE <<>>)],
     [i \in 1..4 |-> WalkFrame(1, 7, BoxAt(100 + 30 * i, 25), <<>>)]}

\* The loop's variables after one more iteration (lines 138-145), dispatched being
\* what its process_alerts returned
AfterFrame(input, current_loop_time, dispatched) ==
    [system |-> process_frame(dispatched.system, input.detections, input.tracker_result,
                              input.analysis_fault, current_loop_time).system,
     now |-> current_loop_time,
     incidents_to_log |-> dispatched.incidents_to_log,
     reportable_alerts |-> dispatched.reportable_alerts,
     frame_input |-> input]

\* The loop's variables after it has processed the frames of the script (the clock
\* does not go back: the test has each frame evaluated before the next is taken)
RECURSIVE LoopedOver(_, _)
LoopedOver(loop, script) ==
    IF script = <<>> THEN loop
    ELSE LET after == AfterFrame(Head(script), loop.now + Head(script).dt,
                                 process_alerts(loop.system, loop.now + Head(script).dt, {}))
         IN IF after.now >= loop.now THEN LoopedOver(after, Tail(script)) ELSE loop

\* The loop's variables when it enters the while loop (line 127)
LoopEntered(zones) ==
    [system |-> [SecurityMonitoringSystem(ZonesJson(zones))
                    EXCEPT !.risk_alert_threshold = Pts(DefaultRiskAlertThreshold)],
     now |-> 0, incidents_to_log |-> <<>>, reportable_alerts |-> <<>>, frame_input |-> NoFrame]

\* Thread 1 was started on the camera and has processed the frames of the script.
Watching(zones, loop) ==
    /\ now = loop.now
    /\ camera = [zones |-> zones, loitering_threshold |-> DefaultLoiteringThreshold,
                 risk_alert_threshold |-> Pts(DefaultRiskAlertThreshold)]
    /\ video_processing_threads = {1}
    /\ thread_stop_flags = {1}
    /\ pause_events = {1}
    /\ camera_systems = {1}
    /\ stop_flag = [t \in Threads |-> FALSE]
    /\ pause_event = [t \in Threads |-> t = 1]
    /\ pc = [t \in Threads |-> IF t = 1 THEN "loop" ELSE "unstarted"]
    /\ system = [t \in Threads |-> IF t = 1 THEN loop.system ELSE NoSystem]
    /\ incidents_to_log = [t \in Threads |-> IF t = 1 THEN loop.incidents_to_log ELSE <<>>]
    /\ reportable_alerts = [t \in Threads |-> IF t = 1 THEN loop.reportable_alerts ELSE <<>>]
    /\ frame_input = [t \in Threads |-> IF t = 1 THEN loop.frame_input ELSE NoFrame]
    /\ frames = 0
    /\ risk_call = NoRiskCall
    /\ stalled = {}
    /\ handed_off = NoTasks
    /\ delivered = NoDeliveries

WalkInit ==
    \E script \in WalkScripts : Watching("one_zone", LoopedOver(LoopEntered("one_zone"), script))

\* The frames that can follow, by the person the loop is watching
WalkInputs(watched) ==
    IF Len(watched.person_trackers) # 1 THEN {}
    ELSE LET person == watched.person_trackers[1]
             n == Len(person.positions)
             x == person.positions[n][1]
         IN CASE person.track_id = 1 ->
                    {WalkFrame(dt, 1, bbox, <<>>) : dt \in {1, 10, 60}, bbox \in {InsideBox, AwayBox}}
              [] person.track_id = 2 ->
                    {WalkFrame(dt, 2, BoxAt(x + 100 * dt, 25), <<>>) : dt \in {10, 20}}
              [] person.track_id = 3 ->
                    {WalkFrame(dt, 3, BoxAt(IF n % 2 = 0 THEN x + 30 * dt ELSE x - 30 * dt, 25), <<>>) :
                        dt \in {10, 20}}
              [] person.track_id = 4 ->
                    {WalkFrame(dt, 4, InsideBox, weapons) :
                        dt \in {10, 20},
                        weapons \in {<<>>, <<WeaponDetection(5)>>,
                                     <<WeaponDetection(5), WeaponDetection(9)>>,
                                     <<WeaponDetection(9), WeaponDetection(5)>>}}
              [] person.track_id = 5 ->
                    {WalkFrame(dt, 5, InsideBox, <<>>) : dt \in {300, 600}}
              [] person.track_id = 6 ->
                    {WalkFrame(1, 6, InsideBox, weapons) :
                        weapons \in {<<>>, <<WeaponDetection(9)>>}}
              [] person.track_id = 7 ->
                    LET step == <<x - person.positions[n - 1][1],
                                  person.positions[n][2] - person.positions[n - 1][2]>>
                    IN {WalkFrame(1, 7, BoxAt(x + heading[1], person.positions[n][2] + heading[2]),
                                  <<>>) :
                           heading \in {step, <<-step[2], step[1]>>}}

MaxWalkFrames == 4

\* A step of the running loop of thread t
LoopStep(t, inputs, max_frames) ==
    \/ LoopCheck(t)
    \/ PauseWait(t)
    \/ StopCheck(t)
    \/ ReadNoFrame(t)
    \/ \E input \in inputs : Iterate(t, input, max_frames)

WalkNext == \E t \in Threads : LoopStep(t, WalkInputs(system[t]), MaxWalkFrames)

WalkSpec == WalkInit /\ [][WalkNext]_vars

(***************************************************************************)
(* Properties of the dispatch (process_alerts), checked on the steps in    *)
(* which a loop thread processes a frame: the call is made on the system   *)
(* of the state before the step, at the clock reading now' of the step,    *)
(* and incidents_to_log' and reportable_alerts' are what it returned.      *)
(***************************************************************************)

\* Thread t processes a frame in this step.
IterateStep(t) == frames' = frames + 1 /\ pc[t] = "read" /\ pc'[t] # "read"

\* The records (incidents or alerts) of a track
RecordsOf(records, track_id) == {k \in 1..Len(records) : records[k].track_id = track_id}

\* The track is active in the sense of the activity predicate: seen less than 5 s ago.
IsActive(person, current_time) == current_time - person.last_seen < ActiveWindow

\* The previous call of the thread found the track significant with this threat.
InRunBefore(t, person, threat) ==
    \E k \in RecordsOf(incidents_to_log[t], person.track_id) :
        incidents_to_log[t][k].primary_threat = threat

\* C1 as stated: over a run of consecutive process_alerts calls in which an active
\* track stays significant with the same primary threat, each call produces one
\* incident, the first call of the run produces exactly one alert and the later
\* calls none; a change of the primary threat starts a run of the new threat, so
\* it produces one further alert and last_notified_threat becomes the new threat.
C1_AlertOnFirstCallOfEveryRun ==
    [][\A t \in Threads : IterateStep(t) =>
        \A i \in 1..Len(system[t].person_trackers) :
            LET person == system[t].person_trackers[i]
                risk == calculate_risk_score(person, now')
            IN (IsActive(person, now') /\ risk.score >= system[t].risk_alert_threshold) =>
                 /\ Cardinality(RecordsOf(incidents_to_log'[t], person.track_id)) = 1
                 /\ Cardinality(RecordsOf(reportable_alerts'[t], person.track_id)) =
                        IF InRunBefore(t, person, risk.primary_threat) THEN 0 ELSE 1
                 /\ system'[t].person_trackers[i].last_notified_threat = risk.primary_threat
      ]_vars

\* C1, amended: each call of such a run produces one incident; a later call of the
\* run produces no alert; the first call of the run produces exactly one alert,
\* of the run's threat, when last_notified_threat differs from that threat (a new
\* track, a track that was below the threshold, a change of the primary threat)
\* and none when it already is that threat (the track was skipped as unseen for
\* more than 5 s in between, which leaves last_notified_threat as it was); after
\* the call last_notified_threat is the run's threat.
C1_AlertDedup ==
    [][\A t \in Threads : IterateStep(t) =>
        \A i \in 1..Len(system[t].person_trackers) :
            LET person == system[t].person_trackers[i]
                risk == calculate_risk_score(person, now')
                alerts == RecordsOf(reportable_alerts'[t], person.track_id)
            IN (IsActive(person, now') /\ risk.score >= system[t].risk_alert_threshold) =>
                 /\ Cardinality(RecordsOf(incidents_to_log'[t], person.track_id)) = 1
                 /\ InRunBefore(t, person, risk.primary_threat) => alerts = {}
                 /\ Cardinality(alerts) =
                        IF person.last_notified_threat = risk.primary_threat THEN 0 ELSE 1
                 /\ \A k \in alerts :
                        reportable_alerts'[t][k].threat_type = risk.primary_threat
                 /\ system'[t].person_trackers[i].last_notified_threat = risk.primary_threat
      ]_vars

\* A second alert after a change of threat: a track that holds an intrusion event
\* was alerted for armed_person by the last call.
C1_Witness ==
    \E t \in Threads : \E i \in 1..Len(system[t].person_trackers) :
        LET person == system[t].person_trackers[i]
        IN /\ person.last_notified_threat = "armed_person"
           /\ \E e \in Range(person.risk_events) : e.event_type = "intrusion"
           /\ Cardinality(RecordsOf(incidents_to_log[t], person.track_id)) = 1
           /\ \E k \in RecordsOf(reportable_alerts[t], person.track_id) :
                  reportable_alerts[t][k].threat_type = "armed_person"

\* C2: a call that finds an active track below the threshold sets its
\* last_notified_threat to "normal" and emits no incident and no alert for it; a
\* call that finds an active track significant after such a reset
\* (last_notified_threat = "normal") emits an alert of its primary threat, also
\* when that is the threat it was notified for before the reset.
C2_DedupRearm ==
    [][\A t \in Threads : IterateStep(t) =>
        \A i \in 1..Len(system[t].person_trackers) :
            LET person == system[t].person_trackers[i]
                risk == calculate_risk_score(person, now')
                alerts == RecordsOf(reportable_alerts'[t], person.track_id)
            IN IsActive(person, now') =>
                 IF risk.score < system[t].risk_alert_threshold
                 THEN /\ system'[t].person_trackers[i].last_notified_threat = "normal"
                      /\ alerts = {}
                      /\ RecordsOf(incidents_to_log'[t], person.track_id) = {}
                 ELSE person.last_notified_threat = "normal" =>
                      /\ Cardinality(alerts) = 1
                      /\ \A k \in alerts :
                             reportable_alerts'[t][k].threat_type = risk.primary_threat
      ]_vars

\* The track that never carried a high-confidence weapon (so intrusion was its
\* primary threat throughout) is alerted for intrusion by the last call, 10 s or
\* more after its only intrusion event: it was alerted for intrusion when the event
\* was new, fell below the threshold as the event aged, and is significant again.
C2_Witness ==
    \E t \in Threads : \E i \in 1..Len(system[t].person_trackers) :
        LET person == system[t].person_trackers[i]
        IN /\ \A o \in Range(person.detected_objects) : o.confidence < 8
           /\ \E e \in Range(person.risk_events) :
                  e.event_type = "intrusion" /\ now - e.timestamp >= 10
           /\ \E k \in RecordsOf(reportable_alerts[t], person.track_id) :
                  reportable_alerts[t][k].threat_type = "intrusion"

\* C3: in every process_alerts call each active track with score >= the threshold
\* yields exactly one incident, carrying its id, score and primary threat, and no
\* other track yields any: the call's incidents are those of these tracks.
C3_IncidentAuditTrail ==
    [][\A t \in Threads : IterateStep(t) =>
        /\ \A i \in 1..Len(system[t].person_trackers) :
            LET person == system[t].person_trackers[i]
                risk == calculate_risk_score(person, now')
                incidents == RecordsOf(incidents_to_log'[t], person.track_id)
            IN IF IsActive(person, now') /\ risk.score >= system[t].risk_alert_threshold
               THEN /\ Cardinality(incidents) = 1
                    /\ \A k \in incidents :
                           /\ incidents_to_log'[t][k].risk_score = risk.score
                           /\ incidents_to_log'[t][k].primary_threat = risk.primary_threat
               ELSE incidents = {}
        /\ \A k \in 1..Len(incidents_to_log'[t]) :
               HasTrack(system[t].person_trackers, incidents_to_log'[t][k].track_id)
      ]_vars

\* The last call returned an incident for a track that had then been unseen for
\* exactly 5 s.
C3_IncidentAtFiveSeconds ==
    \E t \in Threads : \E i \in 1..Len(system[t].person_trackers) :
        LET person == system[t].person_trackers[i]
        IN /\ pc[t] = "loop"
           /\ now - person.last_seen = ActiveWindow
           /\ RecordsOf(incidents_to_log[t], person.track_id) # {}

(***************************************************************************)
(* Properties of the session                                               *)
(***************************************************************************)

\* C4: once the stop flag of a session's thread is set, the thread's loop
\* terminates, whatever state the session is in, paused included.
C4_StopTerminates == \A t \in Threads : stop_flag[t] ~> (pc[t] = "done")

\* The thread's stop flag is set and the thread waits for a pause event that no
\* request can reach any more.
C4_StoppedWhilePaused ==
    \E t \in Threads :
        stop_flag[t] /\ pc[t] = "wait" /\ ~pause_event[t] /\ t \notin pause_events

\* C5: the incidents an iteration returns reflect the events of that iteration's
\* detections: every track that is active and at or above the threshold once the
\* iteration has updated and analysed the tracks has its incident, with that score
\* and threat, among the iteration's incidents.
C5_DispatchAfterAnalysis ==
    [][\A t \in Threads :
        (IterateStep(t) /\ pc'[t] = "loop" /\ frame_input'[t].dispatch_fault = {}) =>
            \A i \in 1..Len(system'[t].person_trackers) :
                LET person == system'[t].person_trackers[i]
                    risk == calculate_risk_score(person, now')
                IN (IsActive(person, now') /\ risk.score >= system'[t].risk_alert_threshold) =>
                     \E k \in RecordsOf(incidents_to_log'[t], person.track_id) :
                         /\ incidents_to_log'[t][k].risk_score = risk.score
                         /\ incidents_to_log'[t][k].primary_threat = risk.primary_threat
      ]_vars

\* The first frame of a session left a track at or above the threshold and the
\* iteration returned no incident.
C5_EventsWithoutIncident ==
    \E t \in Threads : \E i \in 1..Len(system[t].person_trackers) :
        LET person == system[t].person_trackers[i]
        IN /\ pc[t] = "loop"
           /\ person.last_seen = now
           /\ calculate_risk_score(person, now).score >= system[t].risk_alert_threshold
           /\ incidents_to_log[t] = <<>>

\* C6: a track that was already unseen for more than 30 s when an iteration began,
\* and is not seen in it, is no longer stored when the iteration ends.
C6_EventualEviction ==
    [][\A t \in Threads : IterateStep(t) =>
        \A i \in 1..Len(system[t].person_trackers) :
            LET person == system[t].person_trackers[i]
                seen == {frame_input'[t].tracker_result.tracks[k].track_id :
                            k \in 1..Len(frame_input'[t].tracker_result.tracks)}
            IN (now - person.last_seen > InactiveThreshold /\ person.track_id \notin seen) =>
                 ~HasTrack(system'[t].person_trackers, person.track_id)
      ]_vars

\* A running loop has processed two frames since it last saw a track, more than
\* 30 s ago, and stores it.
C6_StaleTrackStored ==
    \E t \in Threads : \E i \in 1..Len(system[t].person_trackers) :
        /\ pc[t] = "loop"
        /\ now - system[t].person_trackers[i].last_seen > InactiveThreshold + 4

\* C7: an eviction pass at time now removes exactly the tracks with
\* now - last_seen > 30 and leaves every other track as it was, in place.
C7_EvictionThreshold ==
    [][\A t \in Threads : (\E reset_raises \in BOOLEAN : EvictionPass(t, reset_raises)) =>
        LET retained(person) == now - person.last_seen <= 30
        IN system'[t].person_trackers = SelectSeq(system[t].person_trackers, retained)
      ]_vars

\* A pass has run at this clock reading and a track unseen for exactly 30 s is
\* still stored, with its history.
C7_Witness ==
    \E t \in Threads :
        /\ system[t].last_tracker_reset = now
        /\ \E i \in 1..Len(system[t].person_trackers) :
               /\ now - system[t].person_trackers[i].last_seen = 30
               /\ system[t].person_trackers[i].positions # <<>>

\* C8: a track whose analysis or dispatch raises in a frame takes nothing from the
\* other tracks: the loop goes on, and every other track, and the incidents and
\* alerts of every other track, are what the frame gives without the fault.
C8_FaultIsolation ==
    [][\A t \in Threads : IterateStep(t) =>
        LET input == frame_input'[t]
            faulty == input.analysis_fault \cup input.dispatch_fault
            others(record) == record.track_id \notin faulty
            dispatched == process_alerts(system[t], now', {})
            processed == process_frame(dispatched.system, input.detections,
                                       input.tracker_result, {}, now')
        IN faulty # {} =>
             /\ pc'[t] = "loop"
             /\ SelectSeq(system'[t].person_trackers, others)
                    = SelectSeq(processed.system.person_trackers, others)
             /\ SelectSeq(incidents_to_log'[t], others) = SelectSeq(dispatched.incidents_to_log, others)
             /\ SelectSeq(reportable_alerts'[t], others)
                    = SelectSeq(dispatched.reportable_alerts, others)
      ]_vars

\* The analysis of track 1 raised: the thread has returned and track 2, seen in
\* that frame in the square, holds no event.
C8_OtherTrackNotAnalysed ==
    \E t \in Threads : \E i \in 1..Len(system[t].person_trackers) :
        LET person == system[t].person_trackers[i]
        IN /\ pc[t] = "done"
           /\ frame_input[t].analysis_fault # {}
           /\ person.track_id \notin frame_input[t].analysis_fault
           /\ person.last_seen = now
           /\ person.risk_events = <<>>

\* C9: when tracker.update raises in a frame the loop goes on and the frame's
\* update step creates no track and changes no track's positions, timestamps,
\* last_seen or box; in a frame in which it does not raise, every track it returns
\* is stored with that frame's time, box and centre.
C9_TrackerFailure ==
    [][\A t \in Threads : IterateStep(t) =>
        LET input == frame_input'[t]
            before == system[t].person_trackers
            after == system'[t].person_trackers
        IN IF input.tracker_result.raised
           THEN /\ input.analysis_fault = {} => pc'[t] = "loop"
                /\ Len(after) = Len(before)
                /\ \A i \in 1..Len(before) :
                       /\ after[i].track_id = before[i].track_id
                       /\ after[i].positions = before[i].positions
                       /\ after[i].timestamps = before[i].timestamps
                       /\ after[i].last_seen = before[i].last_seen
                       /\ after[i].last_bbox = before[i].last_bbox
           ELSE \A k \in 1..Len(input.tracker_result.tracks) :
                    LET track == input.tracker_result.tracks[k]
                    IN /\ HasTrack(after, track.track_id)
                       /\ after[IndexOfTrack(after, track.track_id)].last_seen = now'
                       /\ after[IndexOfTrack(after, track.track_id)].last_bbox = track.bbox
      ]_vars

\* tracker.update raised in the last frame of a loop that goes on, and the store
\* holds the track of an earlier frame.
C9_Witness ==
    \E t \in Threads :
        /\ frame_input[t].tracker_result.raised
        /\ pc[t] = "loop"
        /\ \E i \in 1..Len(system[t].person_trackers) :
               system[t].person_trackers[i].last_seen < now

\* A zone definition that SecurityZone can parse in full
WellFormed(data) ==
    /\ data.kind = "mapping"
    /\ data.has_name
    /\ data.has_points
    /\ data.points.kind = "list"
    /\ \A k \in 1..Len(data.points.items) : data.points.items[k].kind = "ok"

\* C10: the system of a running loop holds every well-formed zone of the camera's
\* configuration, whatever the other definitions of the configuration are.
C10_BadZoneSkipped ==
    \A t \in Threads :
        (pc[t] \in {"loop", "wait", "chk", "read"} /\ ZonesJson(camera.zones).kind = "object") =>
            \A k \in 1..Len(ZonesJson(camera.zones).entries) :
                LET data == ZonesJson(camera.zones).entries[k]
                IN WellFormed(data) =>
                     \E z \in Range(system[t].security_zones) :
                         z.name = data.name /\ z.access_level = data.access_level

\* A loop runs without any zone on a configuration that holds a well-formed zone.
C10_WellFormedZoneLost ==
    \E t \in Threads :
        /\ pc[t] = "read"
        /\ system[t].security_zones = <<>>
        /\ ZonesJson(camera.zones).kind = "object"
        /\ \E k \in 1..Len(ZonesJson(camera.zones).entries) :
               WellFormed(ZonesJson(camera.zones).entries[k])

(***************************************************************************)
(* Properties of the zones and of check_intrusion                          *)
(***************************************************************************)

HoldsEvent(person, event_type) ==
    \E k \in 1..Len(person.risk_events) : person.risk_events[k].event_type = event_type

\* C11: when the camera's zones_json is not valid JSON or is not a JSON object,
\* the constructor does not raise because of it, the zone list of the session is
\* empty, and no track of the session ever holds an intrusion event.
C11_MalformedZonesDegrade ==
    camera.zones \in MalformedZoneConfigs =>
        /\ ~LoadZones(ZonesJson(camera.zones)).raised
        /\ \A t \in Threads :
               /\ system[t].security_zones = <<>>
               /\ \A i \in 1..Len(system[t].person_trackers) :
                      ~HoldsEvent(system[t].person_trackers[i], "intrusion")

\* A session on malformed zones is running and has analysed, twice, a person who
\* stands where the mixed configuration has its restricted square.
C11_Witness ==
    /\ camera.zones \in MalformedZoneConfigs
    /\ \E t \in Threads :
           /\ pc[t] = "loop"
           /\ \E i \in 1..Len(system[t].person_trackers) :
                  LET person == system[t].person_trackers[i]
                  IN /\ Len(person.positions) >= 2
                     /\ \A k \in 1..Len(person.positions) : person.positions[k] = <<5, 5>>

(***************************************************************************)
(* Properties of calculate_risk_score, on the calls of ScoreSpec           *)
(***************************************************************************)

\* C12: for a track without risk events, whatever its position history and
\* movement pattern, calculate_risk_score returns (0.0, "normal").
C12_NoEventsScoreZero ==
    (risk_call.called /\ risk_call.person.risk_events = <<>>) =>
        risk_call.risk = [score |-> 0, primary_threat |-> "normal"]

\* The calculator was called on a running track without events.
C12_Witness ==
    /\ risk_call.called
    /\ risk_call.person.risk_events = <<>>
    /\ get_movement_pattern(risk_call.person) = "running"

\* C13: the total score that calculate_risk_score returns lies in [0, 100],
\* whatever the events of the track and the multipliers applied.
C13_ScoreClamped ==
    risk_call.called => (risk_call.risk.score >= 0 /\ risk_call.risk.score <= Pts(100))

\* The calculator returned 100 for a track whose event scores, before any
\* multiplier, add up to less.
C13_Witness ==
    /\ risk_call.called
    /\ risk_call.risk.score = Pts(100)
    /\ SumScores(risk_call.person.risk_events, risk_call.current_time) < Pts(100)

\* The track with the confidence of its k-th event changed
WithConfidence(person, k, confidence) ==
    [person EXCEPT !.risk_events[k].confidence = confidence]

\* C14: of two tracks that differ only in the confidence of one event, scored at
\* the same time, the one with the higher confidence never gets the lower score.
\* (The score reads a confidence through its level only: 0.3, 0.6 and 0.8 stand
\* for the low, the medium and the high confidences.)
C14_ConfidenceMonotone ==
    risk_call.called =>
        \A k \in 1..Len(risk_call.person.risk_events) :
            \A lower \in {3, 6, 8} :
                lower < risk_call.person.risk_events[k].confidence =>
                    calculate_risk_score(WithConfidence(risk_call.person, k, lower),
                                         risk_call.current_time).score
                        <= risk_call.risk.score

\* The calculator was called on a track with a weapon event of confidence 0.9, and
\* the same track with the confidence 0.5 scores strictly less.
C14_Witness ==
    /\ risk_call.called
    /\ \E k \in 1..Len(risk_call.person.risk_events) :
           /\ risk_call.person.risk_events[k].event_type = "armed_person"
           /\ risk_call.person.risk_events[k].confidence = 9
           /\ calculate_risk_score(WithConfidence(risk_call.person, k, 5),
                                   risk_call.current_time).score
                  < risk_call.risk.score

\* The events whose weighted score is positive and maximal among the track's events
HighestEvents(person, current_time) ==
    {k \in 1..Len(person.risk_events) :
        /\ event_score(person.risk_events[k], current_time) > 0
        /\ \A j \in 1..Len(person.risk_events) :
               event_score(person.risk_events[j], current_time)
                   <= event_score(person.risk_events[k], current_time)}

\* C16: the primary threat that calculate_risk_score returns is the type of the
\* earliest, in list order, of the events whose weighted score is maximal, and it
\* is "normal" only when no event has a positive weighted score.
C16_PrimaryThreat ==
    risk_call.called =>
        LET highest == HighestEvents(risk_call.person, risk_call.current_time)
        IN IF highest = {} THEN risk_call.risk.primary_threat = "normal"
           ELSE /\ risk_call.risk.primary_threat # "normal"
                /\ \E k \in highest :
                       /\ \A j \in highest : k <= j
                       /\ risk_call.risk.primary_threat = risk_call.person.risk_events[k].event_type

\* The calculator was called on a track whose highest score is shared by events of
\* two types.
C16_Witness ==
    /\ risk_call.called
    /\ \E j, k \in HighestEvents(risk_call.person, risk_call.current_time) :
           risk_call.person.risk_events[j].event_type # risk_call.person.risk_events[k].event_type

\* The events the track held before the step: none if the step creates the track.
EventsBefore(t, track_id) ==
    IF HasTrack(system[t].person_trackers, track_id)
    THEN system[t].person_trackers[IndexOfTrack(system[t].person_trackers, track_id)].risk_events
    ELSE <<>>

\* The events of the type that the track holds after the step and that were
\* created at the step's time
CreatedInStep(t, i, event_type) ==
    {k \in 1..Len(system'[t].person_trackers[i].risk_events) :
        /\ system'[t].person_trackers[i].risk_events[k].event_type = event_type
        /\ system'[t].person_trackers[i].risk_events[k].timestamp = now'}

\* C18: the analysis of a frame at time t gives a track an intrusion event if and
\* only if the track's latest position lies inside at least one zone whose access
\* level is restricted or critical and the track holds no intrusion event with
\* t - timestamp < 60; a position that lies only in public or monitored zones, or
\* in no zone, gives none.
C18_IntrusionTrigger ==
    [][\A t \in Threads : (IterateStep(t) /\ now' > now) =>
        \A i \in 1..Len(system'[t].person_trackers) :
            LET person == system'[t].person_trackers[i]
                current_pos == person.positions[Len(person.positions)]
                before == EventsBefore(t, person.track_id)
                guarded == \E z \in Range(system[t].security_zones) :
                               /\ contains_point(z, current_pos)
                               /\ z.access_level \in {"restricted", "critical"}
                recent == \E k \in 1..Len(before) :
                              /\ before[k].event_type = "intrusion"
                              /\ now' - before[k].timestamp < 60
            IN IF person.last_seen = now' /\ guarded /\ ~recent
               THEN Cardinality(CreatedInStep(t, i, "intrusion")) = 1
               ELSE CreatedInStep(t, i, "intrusion") = {}]_vars

\* A track that has been in the monitored square is seen in the critical one 60 s
\* after its last intrusion event and gets a second one.
C18_Witness ==
    \E t \in Threads : \E i \in 1..Len(system[t].person_trackers) :
        LET person == system[t].person_trackers[i]
        IN /\ person.positions[Len(person.positions)] = <<25, 5>>
           /\ <<45, 5>> \in Range(person.positions)
           /\ \E j, k \in 1..Len(person.risk_events) :
                  /\ person.risk_events[j].event_type = "intrusion"
                  /\ person.risk_events[k].event_type = "intrusion"
                  /\ person.risk_events[k].timestamp = now
                  /\ person.risk_events[j].timestamp = now - 60

(***************************************************************************)
(* Properties of analyze_behavior and its checks, on the frames of         *)
(* WalkSpec                                                                *)
(***************************************************************************)

\* C17: with non-decreasing frame times, any two events of one type that a track
\* holds are at least the type's cooldown apart (intrusion 60 s, armed_person 30 s,
\* suspicious_loitering 60 s, erratic_movement 30 s, running 20 s), and one
\* analysis pass creates at most one event per check, never both an
\* erratic_movement and a running event.
C17_CooldownSpacing ==
    [][\A t \in Threads : IterateStep(t) =>
        \A i \in 1..Len(system'[t].person_trackers) :
            LET events == system'[t].person_trackers[i].risk_events
            IN /\ \A j, k \in 1..Len(events) :
                      (j < k /\ events[j].event_type = events[k].event_type) =>
                          events[k].timestamp - events[j].timestamp
                              >= Cooldown(events[j].event_type)
               /\ \A event_type \in EventTypes :
                      Cardinality(CreatedInStep(t, i, event_type)) <= 1
               /\ \/ CreatedInStep(t, i, "erratic_movement") = {}
                  \/ CreatedInStep(t, i, "running") = {}]_vars

\* The track holds two events of the type exactly the type's cooldown apart, and
\* was analysed in between.
TwiceAtCooldown(person, event_type) ==
    \E j, k \in 1..Len(person.risk_events) :
        /\ person.risk_events[j].event_type = event_type
        /\ person.risk_events[k].event_type = event_type
        /\ person.risk_events[k].timestamp
               = person.risk_events[j].timestamp + Cooldown(event_type)
        /\ \E ts \in Range(person.timestamps) :
               /\ person.risk_events[j].timestamp < ts
               /\ ts < person.risk_events[k].timestamp

\* A running track holds two running events 20 s apart.
C17_Witness ==
    \E t \in Threads : \E i \in 1..Len(system[t].person_trackers) :
        TwiceAtCooldown(system[t].person_trackers[i], "running")

\* The last 10 samples of the track move less than 10 px a sample, as the check
\* computes it (the path over the 10 samples, divided by 10).
StationaryWindow(person) ==
    /\ Len(person.positions) >= 10
    /\ PathLength(SubSeq(person.positions, Len(person.positions) - 9, Len(person.positions))) < 100

HeldRecently(person, event_type, current_time, window) ==
    \E k \in 1..Len(person.risk_events) :
        /\ person.risk_events[k].event_type = event_type
        /\ current_time - person.risk_events[k].timestamp < window

\* C19 as stated: the check of a stationary track that runs when the stationary
\* window has lasted exactly loitering_threshold seconds creates exactly one
\* suspicious_loitering event, and a check within 60 s of a loitering event
\* creates none.
C19_LoiteringAtThreshold ==
    [][\A t \in Threads : IterateStep(t) =>
        \A i \in 1..Len(system[t].person_trackers) :
            LET before == system[t].person_trackers[i]
                after == system'[t].person_trackers[i]
            IN (after.last_seen = now' /\ StationaryWindow(after)) =>
                   /\ (/\ before.stationary_start # None
                       /\ now' - before.stationary_start = system[t].loitering_threshold
                       /\ ~HeldRecently(before, "suspicious_loitering", now', 60))
                          => Cardinality(CreatedInStep(t, i, "suspicious_loitering")) = 1
                   /\ HeldRecently(before, "suspicious_loitering", now', 60)
                          => CreatedInStep(t, i, "suspicious_loitering") = {}]_vars

\* C19 amended: the check of a stationary track creates exactly one
\* suspicious_loitering event when the stationary window has lasted longer than
\* loitering_threshold seconds and the track holds no loitering event of the last
\* 60 s; it creates none while the window has lasted loitering_threshold seconds
\* or less, and none within 60 s of a loitering event.
C19_LoiteringBeyondThreshold ==
    [][\A t \in Threads : IterateStep(t) =>
        \A i \in 1..Len(system[t].person_trackers) :
            LET before == system[t].person_trackers[i]
                after == system'[t].person_trackers[i]
            IN (after.last_seen = now' /\ StationaryWindow(after)) =>
                   IF /\ before.stationary_start # None
                      /\ now' - before.stationary_start > system[t].loitering_threshold
                      /\ ~HeldRecently(before, "suspicious_loitering", now', 60)
                   THEN Cardinality(CreatedInStep(t, i, "suspicious_loitering")) = 1
                   ELSE CreatedInStep(t, i, "suspicious_loitering") = {}]_vars

\* A stationary track was checked exactly loitering_threshold seconds after its
\* window began, got its loitering event at a later check, was checked again
\* within 60 s of the event and holds that one loitering event.
C19_Witness ==
    \E t \in Threads : \E i \in 1..Len(system[t].person_trackers) :
        LET person == system[t].person_trackers[i]
            held == {k \in 1..Len(person.risk_events) :
                        person.risk_events[k].event_type = "suspicious_loitering"}
        IN /\ StationaryWindow(person)
           /\ Cardinality(held) = 1
           /\ \E k \in held :
                  LET event == person.risk_events[k]
                      began == event.timestamp - event.duration
                  IN /\ began + system[t].loitering_threshold \in Range(person.timestamps)
                     /\ person.last_seen > event.timestamp
                     /\ person.last_seen < event.timestamp + 60

\* C20: a loitering check that finds the average movement at 10 px or more leaves
\* stationary_start null; the first check that finds it below 10 px sets
\* stationary_start to its own time and the later ones leave it unchanged; every
\* loitering event has the duration emission time - stationary_start.
C20_StationaryWindow ==
    [][\A t \in Threads : IterateStep(t) =>
        \A i \in 1..Len(system[t].person_trackers) :
            LET before == system[t].person_trackers[i]
                after == system'[t].person_trackers[i]
                events == after.risk_events
            IN (after.last_seen = now' /\ Len(after.positions) >= 10) =>
                   /\ after.stationary_start =
                          IF ~StationaryWindow(after) THEN None
                          ELSE IF before.stationary_start = None THEN now'
                          ELSE before.stationary_start
                   /\ \A k \in CreatedInStep(t, i, "suspicious_loitering") :
                          /\ before.stationary_start # None
                          /\ events[k].duration = now' - before.stationary_start]_vars

\* A track that got a loitering event has moved: its window is closed.
C20_Witness ==
    \E t \in Threads : \E i \in 1..Len(system[t].person_trackers) :
        LET person == system[t].person_trackers[i]
        IN /\ Len(person.positions) >= 10
           /\ ~StationaryWindow(person)
           /\ person.stationary_start = None
           /\ HoldsEvent(person, "suspicious_loitering")

\* C21: right after the analysis of a track at time t, every event the track holds
\* is less than 600 s old, and the events it holds are the events it held before
\* that are less than 600 s old, unchanged and in their order, followed by the
\* events created at t.
C21_Retention ==
    [][\A t \in Threads : IterateStep(t) =>
        \A i \in 1..Len(system'[t].person_trackers) :
            LET after == system'[t].person_trackers[i]
                before == EventsBefore(t, after.track_id)
                fresh(e) == now' - e.timestamp < 600
                survivors == SelectSeq(before, fresh)
            IN after.last_seen = now' =>
                   /\ \A k \in 1..Len(after.risk_events) : now' - after.risk_events[k].timestamp < 600
                   /\ Len(after.risk_events) >= Len(survivors)
                   /\ SubSeq(after.risk_events, 1, Len(survivors)) = survivors
                   /\ \A k \in (Len(survivors) + 1)..Len(after.risk_events) :
                          after.risk_events[k].timestamp = now']_vars

\* A track that was analysed 600 s and 300 s ago, and got an event each time, has
\* just been analysed: it holds the event that is 300 s old and none that is older.
C21_Witness ==
    \E t \in Threads : \E i \in 1..Len(system[t].person_trackers) :
        LET person == system[t].person_trackers[i]
        IN /\ person.last_seen = now
           /\ {now - 600, now - 300} \subseteq Range(person.timestamps)
           /\ \E k \in 1..Len(person.risk_events) : person.risk_events[k].timestamp = now - 300
           /\ \A k \in 1..Len(person.risk_events) : person.risk_events[k].timestamp >= now - 300

\* The last entries of the list, at most n of them
LastOf(list, n) == SubSeq(list, Max(1, Len(list) - n + 1), Len(list))

\* C22: after every update a track holds at most 30 positions, at most 30
\* timestamps and at most 10 carried-object sightings, and as many positions as
\* timestamps; the update of a seen track appends the centre of its box and the
\* frame's time, and the frame's sightings, and then drops the oldest entries
\* beyond 30, or 10: the newest entry is the last one.
C22_BoundedHistories ==
    [][\A t \in Threads : IterateStep(t) =>
        \A i \in 1..Len(system'[t].person_trackers) :
            LET after == system'[t].person_trackers[i]
                known == HasTrack(system[t].person_trackers, after.track_id)
                before == IF known THEN system[t].person_trackers[i] ELSE PersonTracker(after.track_id)
                center == <<(after.last_bbox[1] + after.last_bbox[3]) \div 2,
                            (after.last_bbox[2] + after.last_bbox[4]) \div 2>>
                sighted == {k \in 1..Len(after.detected_objects) :
                               after.detected_objects[k].timestamp = now'}
                carried == before.detected_objects
                               \o SubSeq(after.detected_objects,
                                         Len(after.detected_objects) - Cardinality(sighted) + 1,
                                         Len(after.detected_objects))
            IN /\ Len(after.positions) <= 30
               /\ Len(after.timestamps) <= 30
               /\ Len(after.detected_objects) <= 10
               /\ Len(after.positions) = Len(after.timestamps)
               /\ after.last_seen = now' =>
                      /\ after.positions = LastOf(Append(before.positions, center), 30)
                      /\ after.timestamps = LastOf(Append(before.timestamps, now'), 30)
                      /\ after.detected_objects = LastOf(carried, 10)]_vars

\* A track holds 30 samples and 10 sightings, its newest sample and sighting are of
\* the last frame, and its first sample and its first sighting were dropped.
C22_Witness ==
    \E t \in Threads : \E i \in 1..Len(system[t].person_trackers) :
        LET person == system[t].person_trackers[i]
        IN /\ Len(person.positions) = 30
           /\ Len(person.detected_objects) = 10
           /\ person.timestamps[30] = now
           /\ person.detected_objects[10].timestamp = now
           /\ person.timestamps[1] > 1
           /\ person.detected_objects[1].timestamp > 21

(***************************************************************************)
(* Properties of the zones                                                 *)
(***************************************************************************)

\* C23: a zone whose vertex list has 0, 1 or 2 vertices contains no point, the
\* points on its single vertex or on the segment between its two vertices
\* included: no position of a track lies in such a zone, and a track of a session
\* whose zones all have fewer than 3 vertices holds no intrusion event.
C23_DegenerateZones ==
    \A t \in Threads : \A i \in 1..Len(system[t].person_trackers) :
        LET person == system[t].person_trackers[i]
            degenerate == {z \in Range(system[t].security_zones) : Len(z.points) < 3}
        IN /\ \A z \in degenerate : \A pos \in Range(person.positions) : ~contains_point(z, pos)
           /\ degenerate = Range(system[t].security_zones) => ~HoldsEvent(person, "intrusion")

\* A person seen in the middle of the segment of a two-vertex restricted zone holds
\* an intrusion event.
C23_IntrusionOnSegment ==
    \E t \in Threads : \E i \in 1..Len(system[t].person_trackers) :
        LET person == system[t].person_trackers[i]
        IN /\ Len(system[t].security_zones) = 1
           /\ system[t].security_zones[1].points = <<(<<0, 5>>), (<<10, 5>>)>>
           /\ person.positions = <<(<<5, 5>>)>>
           /\ HoldsEvent(person, "intrusion")

(***************************************************************************)
(* Properties of pause and play                                            *)
(***************************************************************************)

\* C24 as stated: while a session is paused (its pause event is cleared), its loop
\* consumes no frame and changes nothing in the Track Store or in any track's
\* dispatch state.
C24_PausePreservesState ==
    [][\A t \in Threads : (t \in pause_events /\ ~pause_event[t]) =>
        /\ ~IterateStep(t)
        /\ system'[t].person_trackers = system[t].person_trackers]_vars

\* C24 amended: while the loop of a session waits at its pause check and the
\* session is paused, the loop stays there, consumes no frame and changes nothing
\* in the Track Store or in any track's dispatch state; the loop leaves the wait
\* only when the pause event is set, and then goes on with the same Track Store.
C24_PausedAtWait ==
    [][\A t \in Threads : pc[t] = "wait" =>
        /\ ~IterateStep(t)
        /\ system'[t] = system[t]
        /\ frame_input'[t] = frame_input[t]
        /\ IF pause_event[t] THEN pc'[t] \in {"wait", "chk"} ELSE pc'[t] = "wait"]_vars

\* The loop of a paused session waits at its pause check with a track in its store
\* and a frame left to read.
C24_Witness ==
    \E t \in Threads :
        /\ pc[t] = "wait"
        /\ t \in pause_events
        /\ ~pause_event[t]
        /\ system[t].person_trackers # <<>>
        /\ frames < MaxFrames

(***************************************************************************)
(* Properties of the session registries                                    *)
(***************************************************************************)

\* C26: under every interleaving of start, stop, pause and play requests, at most
\* one frame-processing loop thread of the camera is alive at any time, and a
\* start request made while a loop thread of the camera is alive creates no
\* second loop.
C26_OneLoopPerSource ==
    [][/\ Cardinality({t \in Threads : is_alive(t)'}) <= 1
       /\ \A t \in Threads : (pc[t] = "unstarted" /\ pc'[t] # "unstarted") =>
              ~(\E u \in Threads : is_alive(u))]_vars

\* Two loop threads of the camera are about to read a frame; the first one was
\* stopped and has not yet seen its stop flag.
C26_TwoLoopsAlive ==
    /\ pc[1] = "read"
    /\ stop_flag[1]
    /\ pc[2] = "read"
    /\ video_processing_threads = {2}

(***************************************************************************)
(* Properties of the loop's input and output                               *)
(***************************************************************************)

\* C25: the frame-loop thread never performs persistence or delivery itself: at no
\* point of its loop does it wait for the answer of a collaborator (every incident
\* write, alert flagging, broadcast and notification runs in another execution
\* context), so a stalled collaborator cannot hold it back from the next frame.
C25_NoBlockingIO == \A t \in Threads : AwaitedByLoop(t) = {}

\* The loop thread has processed a frame and stands at the write of its incidents
\* while the database does not answer; a further frame is there to be read.
C25_LoopHeldByDatabase ==
    \E t \in Threads :
        /\ pc[t] = "persist"
        /\ incidents_to_log[t] # <<>>
        /\ "database" \in stalled
        /\ frames < MaxIoFrames

(***************************************************************************)
(* Properties of the activity predicate                                    *)
(***************************************************************************)

\* C27: behaviour analysis, dispatch and statistics all take a track for active
\* exactly when now - last_seen < 5 s: at a frame's time the statistics count the
\* tracks seen less than 5 s before, and a track that was seen 5 s before or
\* earlier, the track seen exactly 5 s before included, yields no incident and no
\* alert and, unless the frame shows it again, is not analysed.
C27_UniformActivity ==
    [][\A t \in Threads : IterateStep(t) =>
        /\ get_system_statistics(system[t], now').active_trackers
               = Cardinality({i \in 1..Len(system[t].person_trackers) :
                                 now' - system[t].person_trackers[i].last_seen < 5})
        /\ \A i \in 1..Len(system[t].person_trackers) :
               LET person == system[t].person_trackers[i]
                   after == system'[t].person_trackers[i]
               IN now' - person.last_seen >= 5 =>
                      /\ RecordsOf(incidents_to_log'[t], person.track_id) = {}
                      /\ RecordsOf(reportable_alerts'[t], person.track_id) = {}
                      /\ after.last_seen = person.last_seen =>
                             after.risk_events = person.risk_events]_vars

\* The last call returned an alert for a track that had then been unseen for
\* exactly 5 s, and the statistics of that time do not count the track.
C27_AlertAtFiveSeconds ==
    \E t \in Threads : \E i \in 1..Len(system[t].person_trackers) :
        LET person == system[t].person_trackers[i]
        IN /\ pc[t] = "loop"
           /\ now - person.last_seen = 5
           /\ RecordsOf(reportable_alerts[t], person.track_id) # {}
           /\ get_system_statistics(system[t], now).active_trackers = 0

(***************************************************************************)
(* Properties of the movement pattern                                      *)
(***************************************************************************)

\* The consecutive angle deltas of the track's path, by the index of their last
\* sample, and those that exceed pi/4
AngleDeltas(person) == 3..Len(person.positions)

Turns(person) ==
    {i \in AngleDeltas(person) :
        AngleDiffExceedsQuarterPi(Direction(person.positions[i - 2], person.positions[i - 1]),
                                  Direction(person.positions[i - 1], person.positions[i]))}

\* C28: the movement pattern of a track is insufficient_data with fewer than 5
\* samples; otherwise stationary if its speed is below 5, else running if its
\* speed is above 50, else decided by the direction-change rate, the number of
\* consecutive angle deltas exceeding pi/4 divided by the number of consecutive
\* angle deltas: erratic if the rate is above 0.3, linear if it is below 0.1, else
\* normal.
C28_MovementPattern ==
    \A t \in Threads : \A i \in 1..Len(system[t].person_trackers) :
        LET person == system[t].person_trackers[i]
            speed == get_speed(person)
            turns == Cardinality(Turns(person))
            deltas == Cardinality(AngleDeltas(person))
        IN get_movement_pattern(person) =
               IF Len(person.positions) < 5 THEN "insufficient_data"
               ELSE IF speed.num < 5 * speed.den THEN "stationary"
               ELSE IF speed.num > 50 * speed.den THEN "running"
               ELSE IF 10 * turns > 3 * deltas THEN "erratic"
               ELSE IF 10 * turns < deltas THEN "linear"
               ELSE "normal"

\* A track of 5 samples that walks at 30 px/s and has turned once, at its last
\* step: one of its 3 angle deltas exceeds pi/4, and its pattern is normal.
C28_NormalAfterOneTurn ==
    \E t \in Threads : \E i \in 1..Len(system[t].person_trackers) :
        LET person == system[t].person_trackers[i]
        IN /\ Len(person.positions) = 5
           /\ get_speed(person) = [num |-> 120, den |-> 4]
           /\ Turns(person) = {5}
           /\ get_movement_pattern(person) = "normal"

(***************************************************************************)
(* Properties of the escalation                                            *)
(***************************************************************************)

\* The events of the track that are less than 60 s old at the time
RecentEvents(person, current_time) ==
    {k \in 1..Len(person.risk_events) : current_time - person.risk_events[k].timestamp < 60}

\* The sum of the event scores with the multiplier of the movement pattern
PatternedTotal(person, current_time) ==
    LET summed == SumScores(person.risk_events, current_time)
        movement_pattern == get_movement_pattern(person)
    IN CASE movement_pattern = "erratic" -> (summed * 13) \div 10
         [] movement_pattern = "running" -> (summed * 12) \div 10
         [] movement_pattern = "stationary" /\ person.risk_events # <<>> -> (summed * 11) \div 10
         [] OTHER -> summed

\* C29: the total of a track is multiplied by 1.4 exactly when the track holds more
\* than 2 events with now - timestamp < 60, and the multiplier is applied to the
\* total that has the movement-pattern multiplier, before the clamp to 100.
C29_Escalation ==
    risk_call.called =>
        LET patterned == PatternedTotal(risk_call.person, risk_call.current_time)
            recent == RecentEvents(risk_call.person, risk_call.current_time)
        IN risk_call.risk.score =
               IF Cardinality(recent) > 2 THEN Min((patterned * 14) \div 10, Pts(100))
               ELSE Min(patterned, Pts(100))

\* The calculator was called on a zigzagging track whose three events are less
\* than 60 s old: the escalated score is above the total and below 100.
C29_Witness ==
    /\ risk_call.called
    /\ get_movement_pattern(risk_call.person) = "erratic"
    /\ Cardinality(RecentEvents(risk_call.person, risk_call.current_time)) = 3
    /\ risk_call.risk.score < Pts(100)
    /\ risk_call.risk.score > PatternedTotal(risk_call.person, risk_call.current_time)

(***************************************************************************)
(* Properties of the weapon check                                          *)
(***************************************************************************)

\* C30: the analysis of a track at time t creates an armed_person event if and
\* only if the track holds a weapon-class sighting with t - sighting time < 30 and
\* no armed_person event with t - timestamp < 30; the confidence of the event is
\* the maximum confidence among these sightings.
C30_WeaponEvent ==
    [][\A t \in Threads : IterateStep(t) =>
        \A i \in 1..Len(system'[t].person_trackers) :
            LET after == system'[t].person_trackers[i]
                before == IF HasTrack(system[t].person_trackers, after.track_id)
                          THEN system[t].person_trackers[i] ELSE PersonTracker(after.track_id)
                sightings == {k \in 1..Len(before.detected_objects) :
                                 /\ before.detected_objects[k].object \in WeaponClasses
                                 /\ now' - before.detected_objects[k].timestamp < 30}
                created == CreatedInStep(t, i, "armed_person")
            IN after.last_seen = now' =>
                   IF sightings # {} /\ ~HeldRecently(before, "armed_person", now', 30)
                   THEN /\ Cardinality(created) = 1
                        /\ \A e \in created :
                               /\ \E k \in sightings :
                                      after.risk_events[e].confidence
                                          = before.detected_objects[k].confidence
                               /\ \A k \in sightings :
                                      after.risk_events[e].confidence
                                          >= before.detected_objects[k].confidence
                   ELSE created = {}]_vars

\* A track got an armed_person event of confidence 0.9 from two sightings of one
\* frame, the first of them of confidence 0.5, and 30 s later a second event.
C30_Witness ==
    \E t \in Threads : \E i \in 1..Len(system[t].person_trackers) :
        LET person == system[t].person_trackers[i]
        IN \E j, k \in 1..Len(person.risk_events) :
               /\ person.risk_events[j].event_type = "armed_person"
               /\ person.risk_events[j].confidence = 9
               /\ person.risk_events[k].event_type = "armed_person"
               /\ person.risk_events[k].timestamp = person.risk_events[j].timestamp + 30
               /\ \E a, b \in 1..Len(person.detected_objects) :
                      /\ a < b
                      /\ person.detected_objects[a].confidence = 5
                      /\ person.detected_objects[b].confidence = 9
                      /\ person.detected_objects[a].timestamp = person.detected_objects[b].timestamp
                      /\ person.detected_objects[a].timestamp < person.risk_events[j].timestamp
                      /\ person.risk_events[j].timestamp - person.detected_objects[a].timestamp < 30

(***************************************************************************)
(* Properties of the tracker reset                                         *)
(***************************************************************************)

\* C31: an eviction pass asks the tracker to reset only when more than 300 s have
\* passed since the previous reset, or since the first pass; the pass that resets
\* keeps every track seen within the last 30 s as it was: its positions, its
\* events and its dispatch state.
C31_TrackerResetPolicy ==
    [][\A t \in Threads : (\E reset_raises \in BOOLEAN : EvictionPass(t, reset_raises)) =>
        \/ system'[t].tracker_reset_at = system[t].tracker_reset_at
        \/  /\ system[t].last_tracker_reset # None
            /\ now - system[t].last_tracker_reset > 300
            /\ \A i \in 1..Len(system[t].person_trackers) :
                   now - system[t].person_trackers[i].last_seen <= 30 =>
                       \E j \in 1..Len(system'[t].person_trackers) :
                           system'[t].person_trackers[j] = system[t].person_trackers[i]
      ]_vars

\* The tracker was reset at this clock reading, 301 s after the pass before, and the
\* track seen in the last frame is stored with the sample it had before.
C31_Witness ==
    \E t \in Threads :
        /\ system[t].tracker_reset_at = now
        /\ system[t].last_tracker_reset = now
        /\ \E i \in 1..Len(system[t].person_trackers) :
               /\ system[t].person_trackers[i].last_seen = now
               /\ now - 301 \in Range(system[t].person_trackers[i].timestamps)
               /\ system[t].person_trackers[i].risk_events # <<>>

\* C32: in every process_alerts call each alert has, in the same call's incident
\* list, an incident of the same track with the same score and threat, and no track
\* gets more than one alert or more than one incident in a call.
C32_AlertsAmongIncidents ==
    [][\A t \in Threads : IterateStep(t) =>
        /\ \A k \in 1..Len(reportable_alerts'[t]) :
               \E j \in 1..Len(incidents_to_log'[t]) :
                   /\ incidents_to_log'[t][j].track_id = reportable_alerts'[t][k].track_id
                   /\ incidents_to_log'[t][j].risk_score = reportable_alerts'[t][k].risk_score
                   /\ incidents_to_log'[t][j].primary_threat =
                          reportable_alerts'[t][k].threat_type
        /\ \A k \in 1..Len(reportable_alerts'[t]) :
               RecordsOf(reportable_alerts'[t], reportable_alerts'[t][k].track_id) = {k}
        /\ \A j \in 1..Len(incidents_to_log'[t]) :
               RecordsOf(incidents_to_log'[t], incidents_to_log'[t][j].track_id) = {j}
      ]_vars

\* The last call returned an alert and an incident for each of two tracks.
C32_Witness ==
    \E t \in Threads :
        /\ Len(reportable_alerts[t]) = 2
        /\ Len(incidents_to_log[t]) = 2
        /\ \A track_id \in {1, 2} :
               /\ RecordsOf(reportable_alerts[t], track_id) # {}
               /\ RecordsOf(incidents_to_log[t], track_id) # {}

\* C33: with risk_alert_threshold > 0, every incident and every alert that a
\* process_alerts call emits carries as its threat the type of an event that its
\* track holds, never "normal"; a call that dispatches a track and finds it below
\* the threshold leaves its last_notified_threat "normal", and no step other than
\* a process_alerts call changes the last_notified_threat of a track.
C33_NoAlertForNormal ==
    [][\A t \in Threads :
        IF IterateStep(t)
        THEN system[t].risk_alert_threshold > 0 =>
              /\ \A k \in 1..Len(incidents_to_log'[t]) :
                     /\ incidents_to_log'[t][k].primary_threat \in EventTypes
                     /\ \E i \in 1..Len(system[t].person_trackers) :
                          /\ system[t].person_trackers[i].track_id =
                                 incidents_to_log'[t][k].track_id
                          /\ \E e \in Range(system[t].person_trackers[i].risk_events) :
                                 e.event_type = incidents_to_log'[t][k].primary_threat
              /\ \A k \in 1..Len(reportable_alerts'[t]) :
                     /\ reportable_alerts'[t][k].threat_type \in EventTypes
                     /\ \E i \in 1..Len(system[t].person_trackers) :
                          /\ system[t].person_trackers[i].track_id =
                                 reportable_alerts'[t][k].track_id
                          /\ \E e \in Range(system[t].person_trackers[i].risk_events) :
                                 e.event_type = reportable_alerts'[t][k].threat_type
              /\ \A i \in 1..Len(system[t].person_trackers) :
                     LET person == system[t].person_trackers[i]
                     IN (/\ now' - person.last_seen <= 5
                         /\ calculate_risk_score(person, now').score <
                                system[t].risk_alert_threshold) =>
                            system'[t].person_trackers[i].last_notified_threat = "normal"
        ELSE \A j \in 1..Len(system'[t].person_trackers) :
                 \E i \in 1..Len(system[t].person_trackers) :
                     /\ system[t].person_trackers[i].track_id =
                            system'[t].person_trackers[j].track_id
                     /\ system[t].person_trackers[i].last_notified_threat =
                            system'[t].person_trackers[j].last_notified_threat
      ]_vars

\* The last call found a track below the threshold that had been notified of an
\* intrusion: its intrusion event has aged, its status is still "intrusion", its
\* last_notified_threat is "normal" again and the call emitted nothing.
C33_Witness ==
    \E t \in Threads : \E i \in 1..Len(system[t].person_trackers) :
        LET person == system[t].person_trackers[i]
        IN /\ system[t].risk_alert_threshold > 0
           /\ person.status = "intrusion"
           /\ person.last_notified_threat = "normal"
           /\ now - person.last_seen <= 5
           /\ \E e \in Range(person.risk_events) :
                  e.event_type = "intrusion" /\ now - e.timestamp >= 10
           /\ incidents_to_log[t] = <<>>
           /\ reportable_alerts[t] = <<>>

\* C34: a process_alerts call that finds an active track significant with the
\* primary threat with which the previous call found it significant emits no alert
\* for it, also when the previous call scored it below critical_alert_threshold and
\* this call scores it at or above; and the level of every alert a call emits is
\* the one of the score of that call: CRITICAL at or above critical_alert_threshold,
\* HIGH below.
C34_SeverityFixedAtTransition ==
    [][\A t \in Threads : IterateStep(t) =>
        /\ \A i \in 1..Len(system[t].person_trackers) :
            LET person == system[t].person_trackers[i]
                risk == calculate_risk_score(person, now')
            IN (/\ IsActive(person, now')
                /\ risk.score >= system[t].risk_alert_threshold
                /\ InRunBefore(t, person, risk.primary_threat)) =>
                   RecordsOf(reportable_alerts'[t], person.track_id) = {}
        /\ \A k \in 1..Len(reportable_alerts'[t]) :
            \E i \in 1..Len(system[t].person_trackers) :
                LET person == system[t].person_trackers[i]
                    risk == calculate_risk_score(person, now')
                IN /\ person.track_id = reportable_alerts'[t][k].track_id
                   /\ reportable_alerts'[t][k].risk_score = risk.score
                   /\ reportable_alerts'[t][k].level =
                          IF risk.score >= 40 * 10000 THEN "CRITICAL" ELSE "HIGH"
      ]_vars

\* The last call scored a track at 40 or more with the primary threat armed_person
\* and emitted no alert for it: the track was alerted for the weapon (HIGH) while
\* it stood beside the square, and the intrusion event that raised its score is as
\* old as the previous call, which did not count it yet.
C34_Witness ==
    \E t \in Threads : \E i \in 1..Len(system[t].person_trackers) :
        LET person == system[t].person_trackers[i]
        IN /\ person.last_notified_threat = "armed_person"
           /\ \E k \in RecordsOf(incidents_to_log[t], person.track_id) :
                  /\ incidents_to_log[t][k].primary_threat = "armed_person"
                  /\ incidents_to_log[t][k].risk_score >= 40 * 10000
           /\ RecordsOf(reportable_alerts[t], person.track_id) = {}
           /\ Len(person.risk_events) = 2
           /\ \E e \in Range(person.risk_events) :
                  e.event_type = "armed_person" /\ e.timestamp <= now - 8
           /\ \E e \in Range(person.risk_events) :
                  e.event_type = "intrusion" /\ e.timestamp = now - 4
           /\ {now - 8, now - 4} \subseteq Range(person.timestamps)

\* C35: a process_alerts call leaves the status and the last_notified_threat of
\* every track last seen more than 5 s before it as they are and emits nothing for
\* it; and a call that finds a track active and significant with the primary threat
\* that is its last_notified_threat emits no alert for it, also when the previous
\* call emitted nothing for the track (it went unseen in between).
C35_InactiveLeftAlone ==
    [][\A t \in Threads : IterateStep(t) =>
        \A i \in 1..Len(system[t].person_trackers) :
            LET person == system[t].person_trackers[i]
                risk == calculate_risk_score(person, now')
            IN /\ now' - person.last_seen > 5 =>
                    /\ system'[t].person_trackers[i].status = person.status
                    /\ system'[t].person_trackers[i].last_notified_threat =
                           person.last_notified_threat
                    /\ RecordsOf(incidents_to_log'[t], person.track_id) = {}
                    /\ RecordsOf(reportable_alerts'[t], person.track_id) = {}
               /\ (/\ now' - person.last_seen <= 5
                   /\ risk.score >= system[t].risk_alert_threshold
                   /\ risk.primary_threat = person.last_notified_threat
                   /\ RecordsOf(incidents_to_log[t], person.track_id) = {}) =>
                      RecordsOf(reportable_alerts'[t], person.track_id) = {}
      ]_vars

\* The track was notified of an intrusion, went unseen for 60 s, was seen again a
\* second ago and is found significant with the primary threat intrusion by the
\* last call, which logged the incident and emitted no alert.
C35_Witness ==
    \E t \in Threads : \E i \in 1..Len(system[t].person_trackers) :
        LET person == system[t].person_trackers[i]
        IN /\ person.last_notified_threat = "intrusion"
           /\ \E k \in RecordsOf(incidents_to_log[t], person.track_id) :
                  incidents_to_log[t][k].primary_threat = "intrusion"
           /\ RecordsOf(reportable_alerts[t], person.track_id) = {}
           /\ person.last_seen = now
           /\ {now - 61, now - 1} \subseteq Range(person.timestamps)
           /\ \A ts \in Range(person.timestamps) : ~(now - 61 < ts /\ ts < now - 1)

\* C36: once a stop request has returned after the last start request and every
\* loop thread has terminated, the four session registries hold no entry of the
\* camera and a statistics request is answered with not-found.
C36_RegistryCleanupOnStop ==
    (/\ thread_stop_flags = {}
     /\ \E t \in Threads : stop_flag[t]
     /\ \A t \in Threads : ~is_alive(t)) =>
        /\ video_processing_threads = {}
        /\ pause_events = {}
        /\ camera_systems = {}
        /\ get_system_stats.status = 404

\* The session was stopped before its thread had registered its system: the thread
\* has registered it since, seen the stop flag and returned, and the statistics
\* request is answered from the system it left behind.
C36_SystemLeftBehind ==
    /\ pc[1] = "done"
    /\ pc[2] = "unstarted"
    /\ stop_flag[1]
    /\ video_processing_threads = {}
    /\ thread_stop_flags = {}
    /\ pause_events = {}
    /\ camera_systems = {1}
    /\ frames = 0
    /\ get_system_stats.status = 200

\* What the step has added to a log
AddedTo(log, log_after) ==
    IF Len(log_after) >= Len(log) /\ SubSeq(log_after, 1, Len(log)) = log
    THEN SubSeq(log_after, Len(log) + 1, Len(log_after))
    ELSE <<[level |-> "none"]>>

\* C37: when the frame loop handles the alerts of a process_alerts call, every one
\* of them, HIGH or CRITICAL, is broadcast to the viewers, and a notification
\* hand-off is started for an alert if and only if its level is CRITICAL.
C37_NotificationGating ==
    [][\A t \in Threads : (pc[t] = "alert" /\ pc'[t] = "broadcast") =>
        LET broadcast == AddedTo(delivered.broadcast, delivered'.broadcast)
            notified == AddedTo(delivered.notified, delivered'.notified)
        IN /\ broadcast = reportable_alerts[t]
           /\ \A k \in 1..Len(reportable_alerts[t]) :
                  /\ reportable_alerts[t][k].level \in {"HIGH", "CRITICAL"}
                  /\ reportable_alerts[t][k] \in Range(notified) <=>
                         reportable_alerts[t][k].level = "CRITICAL"
           /\ Range(notified) \subseteq Range(reportable_alerts[t])
           /\ Len(notified) = Cardinality(Range(notified))
           /\ handed_off'.notifications = handed_off.notifications + Len(notified)
      ]_vars

\* The viewers were sent a HIGH alert and then a CRITICAL one, and the notification
\* services were handed the CRITICAL one only.
C37_Witness ==
    /\ Len(delivered.broadcast) = 2
    /\ delivered.broadcast[1].level = "HIGH"
    /\ delivered.broadcast[2].level = "CRITICAL"
    /\ delivered.notified = <<delivered.broadcast[2]>>

====
